---- MODULE Spec2Model ----
(***************************************************************************)
(* Model of the diffusion engine (src/diffusion.py) and of the denoiser    *)
(* network (src/architecture.py) with its attention masks (src/data.py).   *)
(*                                                                         *)
(* Numbers.  torch tensors of floats are modelled in fixed point: the      *)
(* integer v stands for the real v / Scale.  A tensor is a function over   *)
(* Pos (its flattened elements, one batch entry per element), the Python   *)
(* value None is the empty tuple.  Progress values t are fixed-point       *)
(* numbers in [0, Scale].                                                  *)
(***************************************************************************)
EXTENDS Integers, Sequences, FiniteSets, TLC

VARIABLES diffuzz, args, pc, err, r_range, sampler, x, x_before, x_renoised,
          pred_noise, preds, i, n_model, n_call, n_blend, n_randn,
          model_t, last, prev_preds, dit, call, train

vars == <<diffuzz, args, pc, err, r_range, sampler, x, x_before, x_renoised,
          pred_noise, preds, i, n_model, n_call, n_blend, n_randn,
          model_t, last, prev_preds, dit, call, train>>

----------------------------------------------------------------------------
(* Bounds of the model *)

\* number of tensor elements
NPos == 2
\* largest value of the timesteps argument of Diffuzz.sample
MaxTimesteps == 2
\* largest number of direct sampler invocations on one sampler object
MaxCalls == 2
\* largest value of the cache_steps argument of Diffuzz
MaxCacheSteps == 3
\* largest max_iterations and checkpoint_freq of a TrainingConfig
MaxIterations == 4
\* largest grad_accum_steps of a TrainingConfig
MaxAccum == 2
\* largest number of times train is run on one checkpoint directory
MaxRuns == 3
\* largest ctx_len of the backbone tensors
MaxCtx == 1
\* largest batch size of the backbone tensors
MaxBatch == 2

Pos == 1..NPos

----------------------------------------------------------------------------
(* Fixed-point arithmetic *)

Scale == 100 * 100

None == <<>>

\* floor(a * b / Scale) without leaving 32 bits while the result fits
MulFP(a, b) ==
    LET ah == a \div Scale
        al == a % Scale
        bh == b \div Scale
        bl == b % Scale
    IN  ah * bh * Scale + ah * bl + al * bh + (al * bl) \div Scale

\* floor(a * Scale / b), for b > 0
DivFP(a, b) == (a \div b) * Scale + ((a % b) * Scale) \div b

\* floor(a * b / c) for c > 0, the product kept exact (it stays below 2^31)
MulDivFP(a, b, c) == (a * b) \div c

RECURSIVE ISqrtRec(_, _, _)
ISqrtRec(n, lo, hi) ==
    IF lo >= hi THEN lo
    ELSE LET mid == (lo + hi + 1) \div 2
         IN  IF mid * mid <= n THEN ISqrtRec(n, mid, hi)
             ELSE ISqrtRec(n, lo, mid - 1)

\* floor of the square root of a natural number below 2^31
ISqrt(n) == ISqrtRec(n, 0, 46340)

\* Tensor.sqrt() of a non-negative fixed-point number
SqrtFP(v) == IF v <= 200000 THEN ISqrt(v * Scale) ELSE ISqrt(v) * 100

\* torch.cos on [0, pi/2] (Taylor polynomial of degree 10, Horner form)
CosFP(theta) ==
    LET t2 == MulFP(theta, theta)
        h5 == Scale - t2 \div 90
        h4 == Scale - MulFP(t2, h5) \div 56
        h3 == Scale - MulFP(t2, h4) \div 30
        h2 == Scale - MulFP(t2, h3) \div 12
    IN  Scale - MulFP(t2, h2) \div 2

\* a clamp onto the open interval, which never returns a bound itself
ClampOpen(v, lo, hi) ==
    IF v <= lo THEN lo + 1 ELSE IF v >= hi THEN hi - 1 ELSE v

Clamp(v, lo, hi) == IF v < lo THEN lo ELSE IF v > hi THEN hi ELSE v

\* the tuple <<f[1], ..., f[n]>>, each entry computed once
RECURSIVE Tuple(_, _)
Tuple(f, n) == IF n = 0 THEN <<>> ELSE Append(Tuple(f, n - 1), f[n])

\* torch.pi * 0.5
HalfPi == 15708

\* torch.linspace(start, end, steps)
LinspaceOpenEnd(start, end, steps) ==
    [k \in 1..steps |-> start + ((k - 1) * (end - start)) \div steps]

Linspace(start, end, steps) ==
    IF steps = 1 THEN <<start>>
    ELSE [k \in 1..steps |->
            IF k - 1 < steps \div 2
              THEN start + ((k - 1) * (end - start)) \div (steps - 1)
              ELSE end - ((steps - k) * (end - start)) \div (steps - 1)]

----------------------------------------------------------------------------
(* Diffuzz: construction and the noise schedule *)

\* the defaults of Diffuzz.__init__
DefaultS == 80
DefaultScaler == Scale
ClampLo == 1
ClampHi == 9999

\* (t + s) / (1 + s) * pi/2, the argument of the cosine
ScheduleAngle(s, t) == MulFP(DivFP(t + s, Scale + s), HalfPi)

\* cos(s / (1 + s) * pi/2) ** 2
InitAlphaCumprod(s) ==
    LET c == CosFP(ScheduleAngle(s, 0)) IN MulFP(c, c)

\* an exponentiation that reflects its base instead of raising it
PowFPReflected(b, e) == IF e = Scale THEN b ELSE Scale - b

\* b ** e for b in [0, 1] and the exponents 1/2, 1 and 2
PowFP(b, e) ==
    IF e = 2 * Scale THEN MulFP(b, b)
    ELSE IF e = Scale \div 2 THEN SqrtFP(b)
    ELSE b

\* the uncached branch of Diffuzz._alpha_cumprod for one progress value
AlphaCumprodFormula(dz, t) ==
    LET tt == IF dz.scaler > Scale
                THEN Scale - PowFP(Scale - t, dz.scaler)
                ELSE IF dz.scaler < Scale THEN PowFP(t, dz.scaler)
                ELSE t
        c  == Clamp(CosFP(ScheduleAngle(dz.s, tt)), 0, Scale)
        a  == DivFP(MulFP(c, c), dz.init_alpha_cumprod)
    IN  Clamp(a, dz.clamp_range[1], dz.clamp_range[2])

\* Diffuzz._alpha_cumprod for one progress value
AlphaCumprod(dz, t) ==
    IF dz.cached_steps = None
      THEN AlphaCumprodFormula(dz, t)
      ELSE dz.cached_steps[((t * (Len(dz.cached_steps) - 1)) \div Scale) + 1]

\* Diffuzz.__init__: with cache_steps given, the schedule is evaluated on
\* linspace(0, 1, cache_steps) while cached_steps is still None.  The
\* argument cache_steps is None or the one-element tuple of the number K.
BuildDiffuzz(s, cache_steps, scaler, clamp_range) ==
    LET dz == [s |-> s, init_alpha_cumprod |-> InitAlphaCumprod(s),
               scaler |-> scaler, cached_steps |-> None,
               clamp_range |-> clamp_range]
    IN  IF cache_steps = None THEN dz
        ELSE LET K == cache_steps[1]
             IN  [dz EXCEPT !.cached_steps =
                    Tuple([k \in 1..K |->
                             AlphaCumprodFormula(dz, Linspace(0, Scale, K)[k])],
                          K)]

\* Diffuzz(), as src/train.py and src/visualize.py build it
NewDiffuzz == BuildDiffuzz(DefaultS, None, DefaultScaler, <<ClampLo, ClampHi>>)

\* Diffuzz.diffuse with the noise given (drawn by the caller when None)
Diffuse(dz, xx, t, noise) ==
    [p \in Pos |->
        LET a == AlphaCumprod(dz, t[p])
        IN  MulFP(SqrtFP(a), xx[p]) + MulFP(SqrtFP(Scale - a), noise[p])]

----------------------------------------------------------------------------
(* Samplers *)

\* mu of DDPMSampler.step for one element, a and ap the two alpha_cumprod
DDPMMuAt(a, ap, xv, nv) ==
    LET al == DivFP(a, ap)
    IN  MulFP(SqrtFP(DivFP(Scale, al)),
              xv - DivFP(MulFP(Scale - al, nv), SqrtFP(Scale - a)))

\* std of DDPMSampler.step for one element, zv the value of torch.randn_like
DDPMStdAt(a, ap, zv) ==
    LET al == DivFP(a, ap)
    IN  MulFP(SqrtFP(MulDivFP(Scale - al, Scale - ap, Scale - a)), zv)

DDPMMu(dz, xx, t, t_prev, noise) ==
    [p \in Pos |-> DDPMMuAt(AlphaCumprod(dz, t[p]), AlphaCumprod(dz, t_prev[p]),
                            xx[p], noise[p])]

DDPMStd(dz, t, t_prev, z) ==
    [p \in Pos |-> DDPMStdAt(AlphaCumprod(dz, t[p]), AlphaCumprod(dz, t_prev[p]),
                             z[p])]

\* a gate that lets the noise through for every entry
NoiseGateOpen(tp) == 1

\* (t_prev != 0).float() for one entry
NoiseGate(tp) == IF tp # 0 THEN 1 ELSE 0

\* DDPMSampler.step
DDPMStep(dz, xx, t, t_prev, noise, z) ==
    [p \in Pos |->
        LET a  == AlphaCumprod(dz, t[p])
            ap == AlphaCumprod(dz, t_prev[p])
        IN  DDPMMuAt(a, ap, xx[p], noise[p])
              + DDPMStdAt(a, ap, z[p]) * NoiseGate(t_prev[p])]

\* a step that re-noises its input without reconstructing the clean sample
DDIMStepNoEstimate(dz, xx, t, t_prev, noise) ==
    [p \in Pos |->
        LET ap == AlphaCumprod(dz, t_prev[p])
        IN  MulFP(SqrtFP(ap), xx[p]) + MulFP(SqrtFP(Scale - ap), noise[p])]

\* DDIMSampler.step
DDIMStep(dz, xx, t, t_prev, noise) ==
    [p \in Pos |->
        LET a  == AlphaCumprod(dz, t[p])
            ap == AlphaCumprod(dz, t_prev[p])
            x0 == DivFP(xx[p] - MulFP(SqrtFP(Scale - a), noise[p]), SqrtFP(a))
        IN  MulFP(SqrtFP(ap), x0) + MulFP(SqrtFP(Scale - ap), noise[p])]

\* the classes that override step, and whether their step calls torch.randn_like
SamplerClasses == {"DDPMSampler", "DDIMSampler"}

StepDrawsNoise(cls) == cls = "DDPMSampler"

\* cls.step(x, t, t_prev, noise), z the value a random draw inside it takes
SamplerStep(cls, dz, xx, t, t_prev, noise, z) ==
    IF cls = "DDPMSampler" THEN DDPMStep(dz, xx, t, t_prev, noise, z)
    ELSE DDIMStep(dz, xx, t, t_prev, noise)

\* SimpleSampler.__init__
NewSampler(cls) == [cls |-> cls, current_step |-> -1]

NoSampler == [cls |-> "none", current_step |-> -1]

\* a __call__ that forgets to count
CallCounterStuck(smp) == smp

\* the counter update of SimpleSampler.__call__
CallCounter(smp) == [smp EXCEPT !.current_step = @ + 1]

\* a table that maps both names to the ancestral sampler
sampler_dict_AllDDPM == [name \in {"ddpm", "ddim"} |-> "DDPMSampler"]

\* sampler_dict
sampler_dict == [name \in {"ddpm", "ddim"} |->
                    IF name = "ddpm" THEN "DDPMSampler" ELSE "DDIMSampler"]

----------------------------------------------------------------------------
(* Diffuzz.sample: arguments *)

\* the names the module binds by import
ImportedNames == {"torch"}

\* classes for which issubclass(cls, SimpleSampler) holds and step is defined
SimpleSamplerSubclasses == SamplerClasses

StepsArgs == {"linear", "ays", "cosine"}

SamplerArgs ==
    { [kind |-> "str", name |-> "ddpm"], [kind |-> "str", name |-> "ddim"],
      [kind |-> "str", name |-> "euler"],
      [kind |-> "class", name |-> "DDPMSampler"],
      [kind |-> "class", name |-> "DDIMSampler"],
      [kind |-> "class", name |-> "dict"],
      [kind |-> "object", name |-> "DDPMSampler"] }

\* the denoisers passed as model: a freshly initialised DiT without a
\* variance head (it returns x_in - 0) and one that predicts no noise
Denoisers == {"fresh", "zero"}

\* no mask, or a mask that is 0 on the first k elements and 1 on the others
\* (the blend is elementwise, the place of the zeros plays no part)
Masks == {None} \cup { [p \in Pos |-> IF p <= k THEN 0 ELSE 1] : k \in 0..NPos }

XInits == {None, [p \in Pos |-> p * Scale]}

TStarts == {0, Scale \div 2, Scale}

TEnds == {0, Scale \div 2}

\* values of torch.randn / torch.randn_like
NoiseDraws == {[p \in Pos |-> Scale], [p \in Pos |-> -Scale]}

SampleArgs ==
    { a \in [op : {"sample"}, steps : StepsArgs, sampler : SamplerArgs,
             mask : Masks, x_init : XInits, t_start : TStarts, t_end : TEnds,
             timesteps : 0..MaxTimesteps, model : Denoisers] :
        a.t_end <= a.t_start }

DirectArgs(cls) ==
    [op |-> "direct", steps |-> "linear",
     sampler |-> [kind |-> "object", name |-> cls],
     mask |-> None, x_init |-> None, t_start |-> Scale, t_end |-> 0,
     timesteps |-> 0, model |-> "zero"]

\* r_range[i] of a batch, every entry the same progress value
TVec(v) == [p \in Pos |-> v]

\* the exception the step-schedule branches raise, "none" when they build r_range
ScheduleError(a) ==
    IF a.steps = "linear" THEN "none"
    ELSE IF a.steps = "ays"
           THEN IF "math" \in ImportedNames THEN "none" ELSE "NameError"
           ELSE "NotImplementedError"

\* r_range; the "ays" expression is never evaluated past the lookup of math
Schedule(a) ==
    IF a.steps = "linear" THEN Linspace(a.t_start, a.t_end, a.timesteps + 1)
    ELSE <<>>

\* the exception the sampler branches raise, "none" when they build a sampler
SamplerError(s) ==
    IF s.kind = "str"
      THEN IF s.name \in DOMAIN sampler_dict THEN "none" ELSE "ValueError"
      ELSE IF s.kind = "class"
             THEN IF s.name \in SimpleSamplerSubclasses THEN "none"
                  ELSE "ValueError"
             ELSE "TypeError"

ResolveSampler(s) ==
    IF s.kind = "str" THEN NewSampler(sampler_dict[s.name]) ELSE NewSampler(s.name)

\* an initial sample that is drawn only when no x_init is given
DrawsInitXWithoutSeed(a) == a.x_init = None

\* whether line 101 draws the initial sample through init_x
DrawsInitX(a) == a.x_init = None \/ a.mask # None

\* whether the loop blends the re-diffused x_init into the working sample
Inpainting(a) == a.mask # None /\ a.x_init # None

\* x * (1 - mask) + x_renoised * mask
BlendSwapped(xx, mask, xr) ==
    [p \in Pos |-> xx[p] * (1 - mask[p]) + xr[p] * mask[p]]

\* x * mask + x_renoised * (1 - mask)
Blend(xx, mask, xr) ==
    [p \in Pos |-> xx[p] * mask[p] + xr[p] * (1 - mask[p])]

\* model(x, r_range[i], **model_inputs)
ModelCall(m, xx, t) ==
    IF m = "fresh" THEN xx ELSE [p \in Pos |-> 0]

----------------------------------------------------------------------------
(* State *)

NoLast == [cls |-> "none", via |-> "none", x |-> None, t |-> None,
           t_prev |-> None, noise |-> None, z |-> None, out |-> None]

\* no denoiser network has been constructed
NoDiT == [config |-> None, params |-> None, loaded |-> FALSE,
          prev |-> None, cur |-> None]

\* no call has been recorded
NoCall == [op |-> "none"]

\* train has not been called
NoTrain == [phase |-> "none"]

\* everything but the arguments, before the first statement of a call runs
Fresh ==
    /\ diffuzz = NewDiffuzz
    /\ err = "none"
    /\ r_range = <<>>
    /\ x = None
    /\ x_before = None
    /\ x_renoised = None
    /\ pred_noise = None
    /\ preds = <<>>
    /\ i = 0
    /\ n_model = 0
    /\ n_call = 0
    /\ n_blend = 0
    /\ n_randn = 0
    /\ model_t = -1
    /\ last = NoLast

\* a call of Diffuzz.sample about to run
InitSample ==
    /\ args \in SampleArgs
    /\ pc = "start"
    /\ sampler = NoSampler
    /\ prev_preds = <<>>
    /\ dit = NoDiT
    /\ call = NoCall
    /\ train = NoTrain
    /\ Fresh

\* a sampler object built by the caller, used through __call__ and step
InitDirect ==
    /\ pc = "idle"
    /\ \E cls \in SamplerClasses :
          args = DirectArgs(cls) /\ sampler = NewSampler(cls)
    /\ prev_preds = <<>>
    /\ dit = NoDiT
    /\ call = NoCall
    /\ train = NoTrain
    /\ Fresh

Init == InitSample \/ InitDirect

----------------------------------------------------------------------------
(* Diffuzz.sample *)

\* lines 81-101: the schedule, the sampler, preds = [] and the first x
Enter ==
    /\ pc = "start"
    /\ LET e1 == ScheduleError(args)
           e2 == SamplerError(args.sampler)
       IN  IF e1 # "none" \/ e2 # "none"
             THEN /\ pc' = "raised"
                  /\ err' = IF e1 # "none" THEN e1 ELSE e2
                  /\ r_range' = IF e1 = "none" THEN Schedule(args) ELSE r_range
                  /\ UNCHANGED <<sampler, x, n_randn, train>>
             ELSE /\ pc' = "loop"
                  /\ r_range' = Schedule(args)
                  /\ sampler' = ResolveSampler(args.sampler)
                  /\ \E z \in NoiseDraws :
                        x' = IF DrawsInitX(args) THEN z ELSE args.x_init
                  /\ n_randn' = IF DrawsInitX(args) THEN n_randn + 1 ELSE n_randn
                  /\ err' = err
    /\ UNCHANGED <<diffuzz, args, x_before, x_renoised, pred_noise, preds,
                   i, n_model, n_call, n_blend, model_t, last, prev_preds, dit, call, train>>

\* lines 103-106: the loop test and the inpainting blend
BlendStep ==
    /\ pc = "loop"
    /\ i < args.timesteps
    /\ pc' = "model"
    /\ x_before' = x
    /\ IF Inpainting(args)
         THEN /\ \E z \in NoiseDraws :
                    x_renoised' = Diffuse(diffuzz, args.x_init, TVec(r_range[i + 1]), z)
              /\ x' = Blend(x, args.mask, x_renoised')
              /\ n_blend' = n_blend + 1
              /\ n_randn' = n_randn + 1
         ELSE UNCHANGED <<x, x_renoised, n_blend, n_randn, train>>
    /\ UNCHANGED <<diffuzz, args, err, r_range, sampler, pred_noise, preds,
                   i, n_model, n_call, model_t, last, prev_preds, dit, call, train>>

\* line 108: the denoiser
Denoise ==
    /\ pc = "model"
    /\ pc' = "undiffuse"
    /\ pred_noise' = ModelCall(args.model, x, r_range[i + 1])
    /\ model_t' = r_range[i + 1]
    /\ n_model' = n_model + 1
    /\ UNCHANGED <<diffuzz, args, err, r_range, sampler, x, x_before, x_renoised,
                   preds, i, n_call, n_blend, n_randn, last, prev_preds, dit, call, train>>

\* Diffuzz.undiffuse with a sampler given: sampler(x, t, t_prev, noise)
Undiffuse(smp, dz, xx, t, t_prev, noise, z) ==
    SamplerStep(smp.cls, dz, xx, t, t_prev, noise, z)

\* line 110: the sampler, through Diffuzz.undiffuse and SimpleSampler.__call__
UndiffuseStep ==
    /\ pc = "undiffuse"
    /\ pc' = "append"
    /\ sampler' = CallCounter(sampler)
    /\ n_call' = n_call + 1
    /\ n_randn' = IF StepDrawsNoise(sampler.cls) THEN n_randn + 1 ELSE n_randn
    /\ \E z \in NoiseDraws :
         LET t  == TVec(r_range[i + 1])
             tp == TVec(r_range[i + 2])
         IN  /\ x' = Undiffuse(sampler, diffuzz, x, t, tp, pred_noise, z)
             /\ last' = [cls |-> sampler.cls, via |-> "call", x |-> x, t |-> t,
                         t_prev |-> tp, noise |-> pred_noise,
                         z |-> IF StepDrawsNoise(sampler.cls) THEN z ELSE None,
                         out |-> x']
    /\ UNCHANGED <<diffuzz, args, err, r_range, x_before, x_renoised, pred_noise,
                   preds, i, n_model, n_blend, model_t, prev_preds, dit, call, train>>

\* line 111 and the loop increment
AppendStep ==
    /\ pc = "append"
    /\ pc' = "loop"
    /\ preds' = Append(preds, x)
    /\ i' = i + 1
    /\ UNCHANGED <<diffuzz, args, err, r_range, sampler, x, x_before, x_renoised,
                   pred_noise, n_model, n_call, n_blend, n_randn, model_t,
                   last, prev_preds, dit, call, train>>

\* line 112
Return ==
    /\ pc = "loop"
    /\ i = args.timesteps
    /\ pc' = "returned"
    /\ UNCHANGED <<diffuzz, args, err, r_range, sampler, x, x_before, x_renoised,
                   pred_noise, preds, i, n_model, n_call, n_blend, n_randn,
                   model_t, last, prev_preds, dit, call, train>>

----------------------------------------------------------------------------
(* A sampler object used directly *)

DirectXs == {[p \in Pos |-> p * Scale]}

\* t is one progress value for the batch, t_prev differs between entries
DirectTs == {TVec(Scale \div 2), TVec(Scale)}

DirectTPrevs == [Pos -> TEnds]

\* sampler(x, t, t_prev, noise): SimpleSampler.__call__
SamplerInvoke ==
    /\ pc = "idle"
    /\ n_call < MaxCalls
    /\ sampler' = CallCounter(sampler)
    /\ n_call' = n_call + 1
    /\ \E xin \in DirectXs, t \in DirectTs, tp \in DirectTPrevs,
          noise \in NoiseDraws, z \in NoiseDraws :
         /\ \A p \in Pos : tp[p] <= t[p]
         /\ x' = SamplerStep(sampler.cls, diffuzz, xin, t, tp, noise, z)
         /\ last' = [cls |-> sampler.cls, via |-> "call", x |-> xin, t |-> t,
                     t_prev |-> tp, noise |-> noise,
                     z |-> IF StepDrawsNoise(sampler.cls) THEN z ELSE None,
                     out |-> x']
    /\ n_randn' = IF StepDrawsNoise(sampler.cls) THEN n_randn + 1 ELSE n_randn
    /\ UNCHANGED <<diffuzz, args, pc, err, r_range, x_before, x_renoised,
                   pred_noise, preds, i, n_model, n_blend, model_t,
                   prev_preds, dit, call, train>>

\* sampler.step(x, t, t_prev, noise) called without __call__
SamplerStepDirect ==
    /\ pc = "idle"
    /\ \E xin \in DirectXs, t \in DirectTs, tp \in DirectTPrevs,
          noise \in NoiseDraws, z \in NoiseDraws :
         /\ \A p \in Pos : tp[p] <= t[p]
         /\ x' = SamplerStep(sampler.cls, diffuzz, xin, t, tp, noise, z)
         /\ last' = [cls |-> sampler.cls, via |-> "step", x |-> xin, t |-> t,
                     t_prev |-> tp, noise |-> noise,
                     z |-> IF StepDrawsNoise(sampler.cls) THEN z ELSE None,
                     out |-> x']
    /\ UNCHANGED <<diffuzz, args, pc, err, r_range, sampler, x_before, x_renoised,
                   pred_noise, preds, i, n_model, n_call, n_blend, n_randn,
                   model_t, prev_preds, dit, call, train>>

----------------------------------------------------------------------------

Next ==
    \/ Enter
    \/ BlendStep
    \/ Denoise
    \/ UndiffuseStep
    \/ AppendStep
    \/ Return
    \/ SamplerInvoke
    \/ SamplerStepDirect

Spec == Init /\ [][Next]_vars

----------------------------------------------------------------------------
(* Two calls of Diffuzz.sample with the same arguments *)

TwiceArgs ==
    { a \in SampleArgs :
        /\ a.steps = "linear"
        /\ a.sampler.kind = "str" /\ a.sampler.name \in DOMAIN sampler_dict
        /\ a.mask \in {None, [p \in Pos |-> IF p = 1 THEN 0 ELSE 1]}
        /\ a.t_start = Scale /\ a.t_end = 0
        /\ a.model = "fresh" }

InitTwice ==
    /\ args \in TwiceArgs
    /\ pc = "start"
    /\ sampler = NoSampler
    /\ prev_preds = <<>>
    /\ dit = NoDiT
    /\ call = NoCall
    /\ train = NoTrain
    /\ Fresh

\* the first call has returned; the caller keeps its trajectory and calls
\* sample again with the same arguments, diffuzz and denoiser
SecondCall ==
    /\ pc = "returned"
    /\ prev_preds = <<>>
    /\ prev_preds' = <<preds>>
    /\ pc' = "start"
    /\ sampler' = NoSampler
    /\ err' = "none"
    /\ r_range' = <<>>
    /\ x' = None
    /\ x_before' = None
    /\ x_renoised' = None
    /\ pred_noise' = None
    /\ preds' = <<>>
    /\ i' = 0
    /\ n_model' = 0
    /\ n_call' = 0
    /\ n_blend' = 0
    /\ n_randn' = 0
    /\ model_t' = -1
    /\ last' = NoLast
    /\ UNCHANGED <<diffuzz, args, dit, call, train>>

NextTwice ==
    \/ Enter
    \/ BlendStep
    \/ Denoise
    \/ UndiffuseStep
    \/ AppendStep
    \/ Return
    \/ SecondCall

SpecTwice == InitTwice /\ [][NextTwice]_vars

----------------------------------------------------------------------------
(* The denoiser: numeric helpers *)

\* the sum of the first n entries of a tuple
RECURSIVE SumTo(_, _)
SumTo(f, n) == IF n = 0 THEN 0 ELSE f[n] + SumTo(f, n - 1)

Sum(f) == SumTo(f, Len(f))

RECURSIVE Pow2(_)
Pow2(k) == IF k = 0 THEN 1 ELSE 2 * Pow2(k - 1)

\* math.log(2)
Ln2 == 6931

\* torch.exp(-u) for u >= 0: 2^-k * exp(-r) with u = k ln 2 + r
ExpNegFP(u) ==
    LET k  == u \div Ln2
        r  == u % Ln2
        h6 == Scale - r \div 6
        h5 == Scale - MulFP(r, h6) \div 5
        h4 == Scale - MulFP(r, h5) \div 4
        h3 == Scale - MulFP(r, h4) \div 3
        h2 == Scale - MulFP(r, h3) \div 2
        e  == Scale - MulFP(r, h2)
    IN  IF k > 14 THEN 0 ELSE e \div Pow2(k)

\* torch.sigmoid
Sigmoid(v) ==
    IF v >= 0 THEN DivFP(Scale, Scale + ExpNegFP(v))
    ELSE LET e == ExpNegFP(-v) IN DivFP(e, Scale + e)

\* nn.SiLU
SiLU(v) == MulFP(v, Sigmoid(v))

\* torch.tanh
RECURSIVE Tanh(_)
Tanh(y) ==
    IF y < 0 THEN -Tanh(-y)
    ELSE LET e == ExpNegFP(2 * y) IN DivFP(Scale - e, Scale + e)

\* nn.GELU(approximate="tanh")
GELU(v) ==
    LET v3 == MulFP(MulFP(v, v), v)
        u  == MulFP(7979, v + MulFP(447, v3))
    IN  MulFP(v \div 2, Scale + Tanh(u))

\* torch.sin on [0, pi/2]
SinFP(a) == CosFP(HalfPi - a)

\* nn.SiLU applied to a vector
SiLUVec(v) == Tuple([c \in 1..Len(v) |-> SiLU(v[c])], Len(v))

\* nn.GELU applied to a vector
GELUVec(v) == Tuple([c \in 1..Len(v) |-> GELU(v[c])], Len(v))

\* the inner product of two vectors
Dot(u, v) == Sum(Tuple([c \in 1..Len(v) |-> MulFP(u[c], v[c])], Len(v)))

\* nn.Linear: W a matrix (a tuple of rows), b the bias, v the input vector
Linear(W, b, v) ==
    Tuple([o \in 1..Len(W) |-> Dot(W[o], v) + b[o]], Len(W))

\* the square of a number
Square(a) == MulFP(a, a)

\* nn.LayerNorm(elementwise_affine=False) over the features of one position
LayerNorm(v, eps) ==
    LET n    == Len(v)
        mean == Sum(v) \div n
        var  == Sum(Tuple([c \in 1..n |-> Square(v[c] - mean)], n)) \div n
        sd   == SqrtFP(var + eps)
    IN  Tuple([c \in 1..n |-> IF sd = 0 THEN 0 ELSE DivFP(v[c] - mean, sd)], n)

\* modulate(x, shift, scale) for one position
modulate(v, shift, scale) ==
    Tuple([c \in 1..Len(v) |-> MulFP(v[c], Scale + scale[c]) + shift[c]],
          Len(v))

\* the entries lo..hi of a tuple (Tensor.chunk, Tensor.split)
Slice(v, lo, hi) == SubSeq(v, lo, hi)

----------------------------------------------------------------------------
(* The denoiser (src/architecture.py).  A batch holds one sample: a tensor  *)
(* is a function from Pos (the sequence positions) to feature vectors.     *)

\* ArchitectureConfig, with the sizes of the model kept small; values of
\* layer_norm_eps (1e-6) lie below the resolution of Scale
ArchitectureConfigs ==
    { [input_dim |-> 1, learn_sigma |-> ls, d_model |-> 2,
       layer_norm_eps |-> 0, seq_len |-> NPos, d_head |-> 2 \div nh,
       n_heads |-> nh, n_layers |-> 1, mlp_ratio |-> 1,
       frequency_embedding_size |-> 2, learned_pos_embed |-> lp] :
        ls \in BOOLEAN, lp \in BOOLEAN, nh \in {1, 2} }

\* math.log(10000)
LnMaxPeriod == 92103

\* TimestepEmbedder.timestep_embedding
timestep_embedding(t, dim) ==
    LET half  == dim \div 2
        freqs == Tuple([k \in 1..half |->
                          ExpNegFP((LnMaxPeriod * (k - 1)) \div half)], half)
        emb   == Tuple([c \in 1..(2 * half) |->
                          IF c <= half THEN CosFP(MulFP(t, freqs[c]))
                          ELSE SinFP(MulFP(t, freqs[c - half]))], 2 * half)
    IN  IF dim % 2 = 1 THEN Append(emb, 0) ELSE emb

\* TimestepEmbedder.forward
TimestepEmbedderForward(cfg, te, t) ==
    LET t_freq == timestep_embedding(t, cfg.frequency_embedding_size)
        h      == Linear(te.w0, te.b0, t_freq)
    IN  Linear(te.w2, te.b2, SiLUVec(h))

\* SinusoidalPosEncoding: sines in the even columns, cosines in the odd ones
\* (columns counted from 0)
SinusoidalPosEncoding(cfg) ==
    Tuple([p \in 1..cfg.seq_len |->
             Tuple([c \in 1..cfg.d_model |->
                      LET k   == (c - 1) \div 2
                          div == ExpNegFP((LnMaxPeriod * 2 * k) \div cfg.d_model)
                          a   == MulFP((p - 1) * Scale, div)
                      IN  IF c % 2 = 1 THEN SinFP(a) ELSE CosFP(a)],
                   cfg.d_model)],
          cfg.seq_len)

\* the attention of the query at position p: attn_mask is None or a boolean
\* matrix whose False entries take no part in the softmax (a row with no
\* True entry is NaN in torch)
AttendFrom(p, q, k, v, attn_mask) ==
    LET n    == Len(k)
        dh   == Len(q[p])
        keys == IF attn_mask = None THEN 1..n
                ELSE { j \in 1..n : attn_mask[p][j] }
        sc   == Tuple([j \in 1..n |->
                         DivFP(Dot(q[p], k[j]), SqrtFP(dh * Scale))], n)
        top  == CHOOSE m \in { sc[j] : j \in keys } :
                   \A j \in keys : sc[j] <= m
        ex   == Tuple([j \in 1..n |->
                         IF j \in keys THEN ExpNegFP(top - sc[j]) ELSE 0], n)
        tot  == Sum(ex)
        w    == Tuple([j \in 1..n |-> DivFP(ex[j], tot)], n)
    IN  Tuple([c \in 1..dh |->
                 Sum(Tuple([j \in 1..n |-> MulFP(w[j], v[j][c])], n))], dh)

\* torch.nn.functional.scaled_dot_product_attention of one head
scaled_dot_product_attention(q, k, v, attn_mask) ==
    Tuple([p \in 1..Len(q) |-> AttendFrom(p, q, k, v, attn_mask)], Len(q))

\* the features of head h in the q (lo = 0), k (lo = d_model) or
\* v (lo = 2 d_model) part of the projection
HeadOf(cfg, qkv, lo, h) ==
    Tuple([p \in 1..Len(qkv) |->
             Slice(qkv[p], lo + (h - 1) * cfg.d_head + 1, lo + h * cfg.d_head)],
          Len(qkv))

\* Attention.forward: the q, k, v projections, the split into heads, the
\* attention of each head and the output projection.  Line 147 passes
\* attn_mask=None to the attention whatever the caller supplied.
AttentionForward(cfg, at, xs, attn_mask) ==
    LET d    == cfg.d_model
        n    == Len(xs)
        qkv  == Tuple([p \in 1..n |-> Linear(at.qkv_w, at.qkv_b, xs[p])], n)
        y    == Tuple([h \in 1..cfg.n_heads |->
                         scaled_dot_product_attention(
                             HeadOf(cfg, qkv, 0, h), HeadOf(cfg, qkv, d, h),
                             HeadOf(cfg, qkv, 2 * d, h), None)],
                      cfg.n_heads)
        cat  == Tuple([p \in 1..n |->
                         Tuple([c \in 1..d |->
                                  y[((c - 1) \div cfg.d_head) + 1][p]
                                   [((c - 1) % cfg.d_head) + 1]], d)], n)
    IN  Tuple([p \in 1..n |-> Linear(at.proj_w, at.proj_b, cat[p])], n)

\* MLP.forward at one position
MLPForward(mlp, v) ==
    Linear(mlp.c_proj_w, mlp.c_proj_b,
           GELUVec(Linear(mlp.c_fc_w, mlp.c_fc_b, v)))

\* x + gate * y at one position
Gated(v, gate, y) ==
    Tuple([c \in 1..Len(v) |-> v[c] + MulFP(gate[c], y[c])], Len(v))

\* DiTBlock.forward
DiTBlockForward(cfg, blk, xs, temb, attn_mask) ==
    LET d    == cfg.d_model
        n    == Len(xs)
        ada  == Linear(blk.ada_w, blk.ada_b, SiLUVec(temb))
        shift_msa == Slice(ada, 1, d)
        scale_msa == Slice(ada, d + 1, 2 * d)
        gate_msa  == Slice(ada, 2 * d + 1, 3 * d)
        shift_mlp == Slice(ada, 3 * d + 1, 4 * d)
        scale_mlp == Slice(ada, 4 * d + 1, 5 * d)
        gate_mlp  == Slice(ada, 5 * d + 1, 6 * d)
        att  == AttentionForward(cfg, blk.attn,
                    Tuple([p \in 1..n |->
                             modulate(LayerNorm(xs[p], cfg.layer_norm_eps),
                                      shift_msa, scale_msa)], n),
                    attn_mask)
        x1   == Tuple([p \in 1..n |-> Gated(xs[p], gate_msa, att[p])], n)
    IN  Tuple([p \in 1..n |->
                 Gated(x1[p], gate_mlp,
                       MLPForward(blk.mlp,
                           modulate(LayerNorm(x1[p], cfg.layer_norm_eps),
                                    shift_mlp, scale_mlp)))], n)

\* the loop over self.blocks of DiT.forward
RECURSIVE BlocksForward(_, _, _, _, _, _)
BlocksForward(cfg, blocks, n, xs, temb, attn_mask) ==
    IF n = 0 THEN xs
    ELSE DiTBlockForward(cfg, blocks[n],
             BlocksForward(cfg, blocks, n - 1, xs, temb, attn_mask),
             temb, attn_mask)

\* FinalLayer.forward: the mean head, and the sigma head when learn_sigma
FinalLayerForward(cfg, fl, xs, temb) ==
    LET d     == cfg.d_model
        n     == Len(xs)
        ada   == Linear(fl.ada_w, fl.ada_b, SiLUVec(temb))
        shift == Slice(ada, 1, d)
        scale == Slice(ada, d + 1, 2 * d)
        y     == Tuple([p \in 1..n |->
                          modulate(LayerNorm(xs[p], 0), shift, scale)], n)
    IN  [mean  |-> Tuple([p \in 1..n |->
                            Linear(fl.mean_w, fl.mean_b, y[p])], n),
         sigma |-> IF cfg.learn_sigma
                     THEN Tuple([p \in 1..n |->
                                   Linear(fl.sigma_w, fl.sigma_b, y[p])], n)
                     ELSE None]

\* the default eps=1e-3 of DiT.forward
ForwardEps == 10

\* the stream entering the first block: x_embedder(x) + pos_embed
Embedded(prm, xs) ==
    Tuple([p \in 1..Len(xs) |->
             LET h == Linear(prm.x_w, prm.x_b, xs[p])
             IN  Tuple([c \in 1..Len(h) |-> h[c] + prm.pos_embed[p][c]],
                       Len(h))],
          Len(xs))

\* DiT.forward
DiTForward(cfg, prm, xs, t, attn_mask) ==
    LET n    == Len(xs)
        temb == TimestepEmbedderForward(cfg, prm.t_embedder, t)
        h    == BlocksForward(cfg, prm.blocks, Len(prm.blocks),
                              Embedded(prm, xs), temb, attn_mask)
        out  == FinalLayerForward(cfg, prm.final_layer, h, temb)
    IN  Tuple([p \in 1..n |->
                 Tuple([c \in 1..cfg.input_dim |->
                          IF cfg.learn_sigma
                            THEN LET b == MulFP(Sigmoid(out.sigma[p][c]),
                                                Scale - 2 * ForwardEps)
                                          + ForwardEps
                                 IN  DivFP(xs[p][c] - out.mean[p][c], b)
                            ELSE xs[p][c] - out.mean[p][c]],
                       cfg.input_dim)], n)

----------------------------------------------------------------------------
(* The denoiser: construction, weights and calls *)

\* the outcomes of the random initialisers and the contents of a checkpoint
\* are drawn from a few patterns, one per seed
Seeds == {1, 2}

\* spread of torch.nn.init.xavier_uniform_
XavierAmp == Scale \div 4

\* spread of nn.init.normal_(std=0.02)
NormalAmp == Scale \div 50

DrawVector(n, seed, amp) ==
    Tuple([c \in 1..n |-> (((3 * c + seed) % 5) - 2) * amp], n)

DrawMatrix(rows, cols, seed, amp) ==
    Tuple([r \in 1..rows |-> DrawVector(cols, seed + r, amp)], rows)

ZeroVector(n) == Tuple([c \in 1..n |-> 0], n)

Zeros(rows, cols) == Tuple([r \in 1..rows |-> ZeroVector(cols)], rows)

\* _basic_init (lines 261-266): Xavier weights and zero bias in every Linear
BasicInit(cfg, seed) ==
    LET d == cfg.d_model
        h == cfg.mlp_ratio * cfg.d_model
    IN  [x_w |-> DrawMatrix(d, cfg.input_dim, seed, XavierAmp),
         x_b |-> ZeroVector(d),
         t_embedder |->
            [w0 |-> DrawMatrix(d, cfg.frequency_embedding_size, seed + 1,
                               XavierAmp),
             b0 |-> ZeroVector(d),
             w2 |-> DrawMatrix(d, d, seed + 2, XavierAmp),
             b2 |-> ZeroVector(d)],
         pos_embed |-> Zeros(cfg.seq_len, d),
         blocks |->
            Tuple([l \in 1..cfg.n_layers |->
                [attn |-> [qkv_w  |-> DrawMatrix(3 * d, d, seed + l, XavierAmp),
                           qkv_b  |-> ZeroVector(3 * d),
                           proj_w |-> DrawMatrix(d, d, seed + l + 1, XavierAmp),
                           proj_b |-> ZeroVector(d)],
                 mlp  |-> [c_fc_w   |-> DrawMatrix(h, d, seed + l + 2, XavierAmp),
                           c_fc_b   |-> ZeroVector(h),
                           c_proj_w |-> DrawMatrix(d, h, seed + l + 3, XavierAmp),
                           c_proj_b |-> ZeroVector(d)],
                 ada_w |-> DrawMatrix(6 * d, d, seed + l + 4, XavierAmp),
                 ada_b |-> ZeroVector(6 * d)]], cfg.n_layers),
         final_layer |->
            [ada_w   |-> DrawMatrix(2 * d, d, seed + 3, XavierAmp),
             ada_b   |-> ZeroVector(2 * d),
             mean_w  |-> DrawMatrix(cfg.input_dim, d, seed + 4, XavierAmp),
             mean_b  |-> ZeroVector(cfg.input_dim),
             sigma_w |-> IF cfg.learn_sigma
                           THEN DrawMatrix(cfg.input_dim, d, seed, XavierAmp)
                           ELSE None,
             sigma_b |-> IF cfg.learn_sigma THEN ZeroVector(cfg.input_dim)
                         ELSE None]]

\* DiT.initialize_weights: _basic_init, then pos_embed, the timestep MLP and
\* the layers set to zero (lines 268-293)
initialize_weights(cfg, seed) ==
    LET d == cfg.d_model
        b == BasicInit(cfg, seed)
    IN  [b EXCEPT
           !.pos_embed = IF ~cfg.learned_pos_embed
                           THEN SinusoidalPosEncoding(cfg)
                           ELSE DrawMatrix(cfg.seq_len, d, seed, NormalAmp),
           !.t_embedder.w0 = DrawMatrix(d, cfg.frequency_embedding_size,
                                        seed + 1, NormalAmp),
           !.t_embedder.w2 = DrawMatrix(d, d, seed + 2, NormalAmp),
           !.blocks = Tuple([l \in 1..cfg.n_layers |->
                               [b.blocks[l] EXCEPT
                                  !.ada_w = Zeros(6 * d, d),
                                  !.ada_b = ZeroVector(6 * d)]],
                            cfg.n_layers),
           !.final_layer.ada_w = Zeros(2 * d, d),
           !.final_layer.ada_b = ZeroVector(2 * d),
           !.final_layer.mean_w = Zeros(cfg.input_dim, d),
           !.final_layer.mean_b = ZeroVector(cfg.input_dim)]

\* the parameters of a checkpoint written after training: every weight and
\* every bias may hold any value
StateDict(cfg, seed) ==
    LET d == cfg.d_model
        h == cfg.mlp_ratio * cfg.d_model
        b == BasicInit(cfg, seed)
    IN  [b EXCEPT
           !.x_b = DrawVector(d, seed, XavierAmp),
           !.pos_embed = IF ~cfg.learned_pos_embed
                           THEN SinusoidalPosEncoding(cfg)
                           ELSE DrawMatrix(cfg.seq_len, d, seed, XavierAmp),
           !.t_embedder.b0 = DrawVector(d, seed + 1, XavierAmp),
           !.t_embedder.b2 = DrawVector(d, seed + 2, XavierAmp),
           !.blocks = Tuple([l \in 1..cfg.n_layers |->
                         [b.blocks[l] EXCEPT
                            !.attn.qkv_b = DrawVector(3 * d, seed + l, XavierAmp),
                            !.attn.proj_b = DrawVector(d, seed + l + 1, XavierAmp),
                            !.mlp.c_fc_b = DrawVector(h, seed + l + 2, XavierAmp),
                            !.mlp.c_proj_b = DrawVector(d, seed + l + 3, XavierAmp),
                            !.ada_b = DrawVector(6 * d, seed + l + 4, XavierAmp)]],
                            cfg.n_layers),
           !.final_layer.ada_b = DrawVector(2 * d, seed + 3, XavierAmp),
           !.final_layer.mean_b = DrawVector(cfg.input_dim, seed + 4, XavierAmp)]

\* DiT.__init__
NewDiT(cfg, seed) ==
    [config |-> cfg, params |-> initialize_weights(cfg, seed),
     loaded |-> FALSE, prev |-> None, cur |-> None]

\* a mask that cuts the rows instead of the columns
create_attn_masks_Rows(num_res, seq_len) ==
    [r \in 1..seq_len |-> [c \in 1..seq_len |-> r <= num_res]]

\* create_attn_masks for one sample with num_res valid residues: entry
\* (row, col) is True in the columns of the valid residues
create_attn_masks(num_res, seq_len) ==
    [r \in 1..seq_len |-> [c \in 1..seq_len |-> c <= num_res]]

\* inputs of a forward call
ForwardXs == [Pos -> {<<0>>, <<Scale>>}]

ForwardTs == {0, Scale}

NumResidues == 1..NPos

\* the configurations handed to the constructor: those above, and the same
\* with a head count that does not divide d_model
ConstructorConfigs ==
    ArchitectureConfigs
      \cup { [cfg EXCEPT !.n_heads = 3, !.d_head = 1] :
                cfg \in ArchitectureConfigs }

\* the checks made while DiT.__init__ runs: the assert of
\* Attention.__init__ (line 124) is the only one that reads n_heads
ConstructionError(cfg) ==
    IF cfg.d_model % cfg.n_heads # 0 THEN "AssertionError" ELSE "none"

\* no denoiser has been constructed yet
InitAttn ==
    /\ args = [op |-> "forward"]
    /\ pc = "idle"
    /\ sampler = NoSampler
    /\ prev_preds = <<>>
    /\ Fresh
    /\ call = NoCall
    /\ train = NoTrain
    /\ dit = NoDiT

\* model = DiT(config): the constructor raises, or the model is built
Construct ==
    /\ dit = NoDiT
    /\ call = NoCall
    /\ \E cfg \in ConstructorConfigs, seed \in Seeds :
          /\ call' = [op |-> "DiT", config |-> cfg]
          /\ IF ConstructionError(cfg) # "none"
                THEN /\ err' = ConstructionError(cfg)
                     /\ dit' = dit
                ELSE /\ err' = err
                     /\ dit' = NewDiT(cfg, seed)
    /\ UNCHANGED <<diffuzz, args, pc, r_range, sampler, x, x_before,
                   x_renoised, pred_noise, preds, i, n_model, n_call,
                   n_blend, n_randn, model_t, last, prev_preds, train>>

\* model.load_state_dict(model_state_dict) of train.py, before the model is
\* used
LoadStateDict ==
    /\ dit # NoDiT
    /\ dit.cur = None
    /\ ~dit.loaded
    /\ \E seed \in Seeds :
          dit' = [dit EXCEPT !.params = StateDict(dit.config, seed),
                             !.loaded = TRUE]
    /\ UNCHANGED <<diffuzz, args, pc, err, r_range, sampler, x, x_before,
                   x_renoised, pred_noise, preds, i, n_model, n_call,
                   n_blend, n_randn, model_t, last, prev_preds,
                   call, train>>

\* model(x, t, attn_masks): one call of DiT.forward, with the mask that
\* create_attn_masks builds for the sample; the last two calls are kept.
\* A second call is made at the progress value of the first, with another
\* input or for another residue count.
ForwardCall ==
    /\ dit # NoDiT
    /\ dit.prev = None
    /\ \E xs \in ForwardXs, t \in ForwardTs, n \in NumResidues :
          /\ dit.cur # None =>
                (t = dit.cur.t /\ (xs = dit.cur.x \/ n = dit.cur.num_res))
          /\ LET m == create_attn_masks(n, dit.config.seq_len)
              IN  dit' = [dit EXCEPT
                            !.prev = dit.cur,
                            !.cur = [x |-> xs, t |-> t, num_res |-> n,
                                     attn_mask |-> m,
                                     out |-> DiTForward(dit.config,
                                                        dit.params,
                                                        xs, t, m)]]
    /\ UNCHANGED <<diffuzz, args, pc, err, r_range, sampler, x, x_before,
                   x_renoised, pred_noise, preds, i, n_model, n_call,
                   n_blend, n_randn, model_t, last, prev_preds,
                   call, train>>

NextAttn ==
    \/ Construct
    \/ LoadStateDict
    \/ ForwardCall

SpecAttn == InitAttn /\ [][NextAttn]_vars

----------------------------------------------------------------------------
(* A Diffuzz of any configuration and one use of it: a method call, a
   diffuse call followed by a DDIM step, or a sample call *)

\* the arguments of Diffuzz.__init__
ScalerArgs == {Scale \div 2, Scale, 2 * Scale}

CacheStepsArgs == {None} \cup { <<K>> : K \in 1..MaxCacheSteps }

ClampRangeArgs ==
    { <<ClampLo, ClampHi>>, <<Scale \div 100, Scale - Scale \div 100>> }

Diffuzzes ==
    { BuildDiffuzz(DefaultS, cs, sc, cr) :
        cs \in CacheStepsArgs, sc \in ScalerArgs, cr \in ClampRangeArgs }

\* progress values: the two ends, eighths, and values close to the ends
TGrid ==
    {0, Scale \div 5000, Scale \div 2000, Scale - Scale \div 200,
     Scale - Scale \div 1000, Scale}
      \cup { (k * Scale) \div 8 : k \in 1..7 }

\* tensors of two progress values in ascending order
TPairs == { p \in TGrid \X TGrid : p[1] <= p[2] }

\* progress values of the diffuse and step calls
StepTs == {0, (3 * Scale) \div 8, (3 * Scale) \div 4, Scale}

\* clean samples handed to diffuse
DiffuseXs == {[p \in Pos |-> p * Scale], [p \in Pos |-> -(Scale \div 2)]}

\* a method that forgets the cache
SelfAfterCacheDropped(dz) == [dz EXCEPT !.cached_steps = None]

\* the fields of self when a method of Diffuzz returns: after __init__ no
\* method assigns to self
SelfAfter(dz) == dz

\* a diffuse that draws its noise whether or not one is supplied
DiffuseMethodAlwaysDraws(dz, xx, t, noise, z) ==
    [ret |-> <<Tuple(Diffuse(dz, xx, t, z), NPos), z>>,
     drew |-> TRUE,
     x |-> xx, t |-> t, noise |-> noise]

\* Diffuzz.diffuse(x, t, noise): z is the value torch.randn_like takes when
\* it is called; the result holds the two returned values and the three
\* arguments as they are when the method returns
DiffuseMethod(dz, xx, t, noise, z) ==
    LET used == IF noise = None THEN z ELSE noise
    IN  [ret |-> <<Tuple(Diffuse(dz, xx, t, used), NPos), used>>,
         drew |-> noise = None,
         x |-> xx, t |-> t, noise |-> noise]

\* the clean-sample estimate x0 of DDIMSampler.step (line 36)
DDIMEstimate(dz, xx, t, noise) ==
    Tuple([p \in Pos |->
             LET a == AlphaCumprod(dz, t[p])
             IN  DivFP(xx[p] - MulFP(SqrtFP(Scale - a), noise[p]), SqrtFP(a))],
          NPos)

\* Diffuzz.p2_weight(t) with k = 1.0 and gamma = 1.0
P2Weight(dz, t) ==
    LET a == AlphaCumprod(dz, t)
    IN  DivFP(Scale, Scale + DivFP(a, Scale - a))

\* a sample call made on the Diffuzz: linear steps, a sampler named in
\* sampler_dict, one iteration, with or without inpainting
OnceArgs ==
    { a \in SampleArgs :
        /\ a.steps = "linear"
        /\ a.sampler.kind = "str" /\ a.sampler.name \in DOMAIN sampler_dict
        /\ a.mask \in {None, [p \in Pos |-> IF p = 1 THEN 0 ELSE 1]}
        /\ (a.mask = None) = (a.x_init = None)
        /\ a.t_start = Scale /\ a.t_end = 0
        /\ a.timesteps = 1
        /\ a.model = "fresh" }

\* the representative denoiser of the sample calls: a freshly built DiT
\* without a variance head
SamplingConfig ==
    CHOOSE cfg \in ArchitectureConfigs :
        ~cfg.learn_sigma /\ ~cfg.learned_pos_embed /\ cfg.n_heads = 2

InitDiffuzz ==
    /\ args = [op |-> "methods"]
    /\ pc = "idle"
    /\ sampler = NoSampler
    /\ prev_preds = <<>>
    /\ err = "none"
    /\ r_range = <<>>
    /\ x = None
    /\ x_before = None
    /\ x_renoised = None
    /\ pred_noise = None
    /\ preds = <<>>
    /\ i = 0
    /\ n_model = 0
    /\ n_call = 0
    /\ n_blend = 0
    /\ n_randn = 0
    /\ model_t = -1
    /\ last = NoLast
    /\ call = NoCall
    /\ train = NoTrain
    /\ diffuzz \in Diffuzzes
    /\ dit = NewDiT(SamplingConfig, 1)

\* self._alpha_cumprod(t) for a tensor t of two progress values
AlphaCumprodCall ==
    /\ pc = "idle" /\ args.op = "methods"
    /\ call = NoCall
    /\ \E t \in TPairs :
          call' = [op |-> "_alpha_cumprod", t |-> t,
                   out |-> <<AlphaCumprod(diffuzz, t[1]),
                             AlphaCumprod(diffuzz, t[2])>>]
    /\ diffuzz' = SelfAfter(diffuzz)
    /\ UNCHANGED <<args, pc, err, r_range, sampler, x, x_before, x_renoised,
                   pred_noise, preds, i, n_model, n_call, n_blend, n_randn,
                   model_t, last, prev_preds, dit, train>>

\* self.diffuse(x, t, noise)
DiffuseCall ==
    /\ pc = "idle" /\ args.op = "methods"
    /\ call = NoCall
    /\ \E xx \in DiffuseXs, t \in StepTs, noise \in {None} \cup NoiseDraws,
          z \in NoiseDraws :
          LET r == DiffuseMethod(diffuzz, xx, TVec(t), noise, z)
          IN  /\ call' = [op |-> "diffuse", x |-> xx, t |-> TVec(t),
                          noise |-> noise, ret |-> r.ret, drew |-> r.drew,
                          x_after |-> r.x, t_after |-> r.t,
                          noise_after |-> r.noise]
              /\ n_randn' = IF r.drew THEN n_randn + 1 ELSE n_randn
    /\ n_randn < MaxCalls
    /\ diffuzz' = SelfAfter(diffuzz)
    /\ UNCHANGED <<args, pc, err, r_range, sampler, x, x_before, x_renoised,
                   pred_noise, preds, i, n_model, n_call, n_blend,
                   model_t, last, prev_preds, dit, train>>

\* DDIMSampler(self).step(x_t, t, t_prev, noise) on the two values a diffuse
\* call has returned
StepAfterDiffuse ==
    /\ pc = "idle" /\ args.op = "methods"
    /\ call.op = "diffuse"
    /\ \E tp \in StepTs :
          call' = [op |-> "ddim_step", x0 |-> call.x, x_t |-> call.ret[1],
                   t |-> call.t, t_prev |-> TVec(tp), noise |-> call.ret[2],
                   est |-> DDIMEstimate(diffuzz, call.ret[1], call.t,
                                        call.ret[2]),
                   out |-> Tuple(DDIMStep(diffuzz, call.ret[1], call.t,
                                          TVec(tp), call.ret[2]), NPos)]
    /\ diffuzz' = SelfAfter(diffuzz)
    /\ UNCHANGED <<args, pc, err, r_range, sampler, x, x_before, x_renoised,
                   pred_noise, preds, i, n_model, n_call, n_blend, n_randn,
                   model_t, last, prev_preds, dit, train>>

\* self.undiffuse(x, t, t_prev, noise) without a sampler: a new DDPMSampler
\* is built and invoked once
UndiffuseCall ==
    /\ pc = "idle" /\ args.op = "methods"
    /\ call = NoCall
    /\ n_randn < MaxCalls
    /\ \E xx \in DirectXs, t \in StepTs, tp \in StepTs, z \in NoiseDraws :
          /\ tp <= t
          /\ call' = [op |-> "undiffuse", x |-> xx, t |-> TVec(t),
                      t_prev |-> TVec(tp),
                      sampler |-> CallCounter(NewSampler("DDPMSampler")),
                      out |-> Tuple(Undiffuse(NewSampler("DDPMSampler"),
                                              diffuzz, xx, TVec(t), TVec(tp),
                                              TVec(0), z), NPos)]
    /\ n_randn' = n_randn + 1
    /\ diffuzz' = SelfAfter(diffuzz)
    /\ UNCHANGED <<args, pc, err, r_range, sampler, x, x_before, x_renoised,
                   pred_noise, preds, i, n_model, n_call, n_blend,
                   model_t, last, prev_preds, dit, train>>

\* self.p2_weight(t)
P2WeightCall ==
    /\ pc = "idle" /\ args.op = "methods"
    /\ call = NoCall
    /\ \E t \in TGrid :
          call' = [op |-> "p2_weight", t |-> t, out |-> P2Weight(diffuzz, t)]
    /\ diffuzz' = SelfAfter(diffuzz)
    /\ UNCHANGED <<args, pc, err, r_range, sampler, x, x_before, x_renoised,
                   pred_noise, preds, i, n_model, n_call, n_blend, n_randn,
                   model_t, last, prev_preds, dit, train>>

\* self.sample(...) is called; its body runs through the steps of
\* Diffuzz.sample
StartSample ==
    /\ pc = "idle" /\ args.op = "methods"
    /\ call = NoCall
    /\ args' \in OnceArgs
    /\ pc' = "start"
    /\ UNCHANGED <<diffuzz, err, r_range, sampler, x, x_before, x_renoised,
                   pred_noise, preds, i, n_model, n_call, n_blend, n_randn,
                   model_t, last, prev_preds, dit, call, train>>

NextDiffuzz ==
    \/ AlphaCumprodCall
    \/ DiffuseCall
    \/ StepAfterDiffuse
    \/ UndiffuseCall
    \/ P2WeightCall
    \/ StartSample
    \/ Enter
    \/ BlendStep
    \/ Denoise
    \/ UndiffuseStep
    \/ AppendStep
    \/ Return

SpecDiffuzz == InitDiffuzz /\ [][NextDiffuzz]_vars

----------------------------------------------------------------------------
(* Training runs and their checkpoints (src/train.py) *)

\* the fields of TrainingConfig that the iteration loop reads
TrainingConfigs ==
    [max_iterations : 1..MaxIterations,
     grad_accum_steps : 1..MaxAccum,
     checkpoint_freq : 1..MaxIterations]

\* file names of the checkpoint directory: the number it stands for
\* "model_{it}.pt", and 0 for "model.pt"
FinalName == 0

PeriodicName(it) == it

\* torch.save of save_checkpoint: the file is written, a file of the same
\* name is replaced
save_checkpoint(files, checkpoint_name, last_epoch, it) ==
    { f \in files : f.name # checkpoint_name }
      \cup { [name |-> checkpoint_name, iter |-> it,
              scheduler_last_step |-> last_epoch] }

\* get_checkpoint on a directory that holds files: "model.pt" when it is
\* there, else checkpoints[-1], the last entry of os.listdir, whose order
\* is arbitrary
get_checkpoint(files) ==
    IF \E f \in files : f.name = FinalName
      THEN { f \in files : f.name = FinalName }
      ELSE files

\* start_iter of a resumed run (line 249)
StartIter(checkpoint, cfg) ==
    checkpoint.scheduler_last_step * cfg.grad_accum_steps + 1

\* whether iteration it steps the optimizer and the scheduler (line 329)
StepsScheduler(it, cfg) ==
    it % cfg.grad_accum_steps = 0 \/ it = cfg.max_iterations

\* the value the loop variable takes next
NextIt(tr) == IF tr.it = None THEN tr.start_iter ELSE tr.it[1] + 1

\* an empty checkpoint directory and a configuration, train not yet called
InitTrain ==
    /\ args = [op |-> "train"]
    /\ pc = "idle"
    /\ sampler = NoSampler
    /\ prev_preds = <<>>
    /\ Fresh
    /\ call = NoCall
    /\ dit = NoDiT
    /\ \E cfg \in TrainingConfigs :
          train = [phase |-> "idle", cfg |-> cfg, files |-> {}, run |-> 0,
                   listing |-> {}, checkpoint |-> None, start_iter |-> 1,
                   it |-> None, last_epoch |-> 0, err |-> "none"]

\* train up to the loop (lines 201-283): a fresh start when the directory
\* is empty, else the state of the checkpoint that get_checkpoint returns
TrainEnter ==
    /\ train.phase \in {"idle", "done", "raised", "killed"}
    /\ train.run < MaxRuns
    /\ IF train.files = {}
         THEN train' = [train EXCEPT !.phase = "loop", !.run = @ + 1,
                                     !.listing = {}, !.checkpoint = None,
                                     !.start_iter = 1, !.it = None,
                                     !.last_epoch = 0, !.err = "none"]
         ELSE \E c \in get_checkpoint(train.files) :
                 train' = [train EXCEPT
                             !.phase = "loop", !.run = @ + 1,
                             !.listing = train.files, !.checkpoint = c,
                             !.start_iter = StartIter(c, train.cfg),
                             !.it = None,
                             !.last_epoch = c.scheduler_last_step,
                             !.err = "none"]
    /\ UNCHANGED <<diffuzz, args, pc, err, r_range, sampler, x, x_before,
                   x_renoised, pred_noise, preds, i, n_model, n_call,
                   n_blend, n_randn, model_t, last, prev_preds, dit, call>>

\* one pass of the loop body (lines 285-377): the optimizer and scheduler
\* step, then the periodic checkpoint
TrainIteration ==
    /\ train.phase = "loop"
    /\ NextIt(train) <= train.cfg.max_iterations
    /\ LET it == NextIt(train)
           le == IF StepsScheduler(it, train.cfg)
                   THEN train.last_epoch + 1 ELSE train.last_epoch
       IN  train' = [train EXCEPT
                       !.it = <<it>>,
                       !.last_epoch = le,
                       !.files = IF it % train.cfg.checkpoint_freq = 0
                                   THEN save_checkpoint(train.files,
                                            PeriodicName(it), le, it)
                                   ELSE @]
    /\ UNCHANGED <<diffuzz, args, pc, err, r_range, sampler, x, x_before,
                   x_renoised, pred_noise, preds, i, n_model, n_call,
                   n_blend, n_randn, model_t, last, prev_preds, dit, call>>

\* the loop is exhausted and the final checkpoint is written (line 383); it
\* is unbound when the loop body never ran
TrainFinish ==
    /\ train.phase = "loop"
    /\ NextIt(train) > train.cfg.max_iterations
    /\ IF train.it = None
         THEN train' = [train EXCEPT !.phase = "raised",
                                     !.err = "UnboundLocalError"]
         ELSE train' = [train EXCEPT
                          !.phase = "done",
                          !.files = save_checkpoint(train.files, FinalName,
                                        train.last_epoch, train.it[1])]
    /\ UNCHANGED <<diffuzz, args, pc, err, r_range, sampler, x, x_before,
                   x_renoised, pred_noise, preds, i, n_model, n_call,
                   n_blend, n_randn, model_t, last, prev_preds, dit, call>>

\* the process is stopped between two passes of the loop; the checkpoints
\* written so far stay in the directory
TrainKilled ==
    /\ train.phase = "loop"
    /\ train.it # None
    /\ train' = [train EXCEPT !.phase = "killed"]
    /\ UNCHANGED <<diffuzz, args, pc, err, r_range, sampler, x, x_before,
                   x_renoised, pred_noise, preds, i, n_model, n_call,
                   n_blend, n_randn, model_t, last, prev_preds, dit, call>>

NextTrain ==
    \/ TrainEnter
    \/ TrainIteration
    \/ TrainFinish
    \/ TrainKilled

SpecTrain == InitTrain /\ [][NextTrain]_vars

----------------------------------------------------------------------------
(* Backbone atom slots (src/data.py) *)

\* the atom type of every slot, slot 0 first
PROTEIN_ATOMS ==
    <<"N", "CA", "C", "CB", "O", "CG", "CG1", "CG2", "OG", "OG1", "SG", "CD",
      "CD1", "CD2", "ND1", "ND2", "OD1", "OD2", "SD", "CE", "CE1", "CE2",
      "CE3", "NE", "NE1", "NE2", "OE1", "OE2", "CH2", "NH1", "NH2", "OH",
      "CZ", "CZ2", "CZ3", "NZ", "OXT">>

\* backbone of process_coordinates
backbone == {"N", "CA", "C", "O"}

RECURSIVE IndicesUpTo(_)
\* the slot numbers, counted from 0, of the backbone atoms among the first n
\* atom types, in the order of enumerate(PROTEIN_ATOMS)
IndicesUpTo(n) ==
    IF n = 0 THEN <<>>
    ELSE IF PROTEIN_ATOMS[n] \in backbone
           THEN Append(IndicesUpTo(n - 1), n - 1)
           ELSE IndicesUpTo(n - 1)

\* backbone_indices.values() of process_coordinates
backbone_indices == IndicesUpTo(Len(PROTEIN_ATOMS))

\* backbone_atoms of remove_useless_atoms
backbone_atoms == <<0, 1, 2, 4>>

\* einops.rearrange(t, "... -> 1 ..."): a leading dimension of size 1
Rearrange1(t) == [ndim |-> t.ndim + 1, v |-> <<t.v>>]

\* the tensor as the body of either function sees it: batched when it had
\* unbatched dimensions
Batched(t, unbatched) == IF t.ndim = unbatched THEN Rearrange1(t) ELSE t

\* row[idx]: the entries of a row of slots at the slot numbers idx
Take(row, idx) == Tuple([ki \in 1..Len(idx) |-> row[idx[ki] + 1]], Len(idx))

\* t[:, :, idx]
IndexSlots(t, idx) ==
    [ndim |-> t.ndim,
     v |-> Tuple([bi \in 1..Len(t.v) |->
               Tuple([ri \in 1..Len(t.v[bi]) |-> Take(t.v[bi][ri], idx)],
                     Len(t.v[bi]))],
             Len(t.v))]

\* zeros((batch, ctx_len, n, ...)) with z the zero of the trailing dimensions
zeros(nd, batch, ctx_len, n, z) ==
    [ndim |-> nd,
     v |-> Tuple([bi \in 1..batch |->
               Tuple([ri \in 1..ctx_len |-> Tuple([ki \in 1..n |-> z], n)],
                     ctx_len)],
             batch)]

\* concat of four tensors along dimension 2
concat(parts) ==
    [ndim |-> parts[1].ndim,
     v |-> Tuple([bi \in 1..Len(parts[1].v) |->
               Tuple([ri \in 1..Len(parts[1].v[bi]) |->
                         parts[1].v[bi][ri] \o parts[2].v[bi][ri]
                           \o parts[3].v[bi][ri] \o parts[4].v[bi][ri]],
                     Len(parts[1].v[bi]))],
             Len(parts[1].v))]

\* the zero of the coord dimension
ZeroCoord == <<0, 0, 0>>

remove_useless_atoms(atom_positions, atom_mask) ==
    LET ps == Batched(atom_positions, 3)
        ms == Batched(atom_mask, 2)
    IN  <<IndexSlots(ps, backbone_atoms), IndexSlots(ms, backbone_atoms)>>

\* add_back_useless_atoms without the empty slot between C and O
add_back_useless_atoms_Adjacent(atom_positions, atom_mask) ==
    LET ps == Batched(atom_positions, 3)
        ms == Batched(atom_mask, 2)
        batch == Len(ms.v)
        ctx_len == Len(ms.v[1])
    IN  <<concat(<<IndexSlots(ps, <<0, 1, 2>>),
                   IndexSlots(ps, <<3>>),
                   zeros(4, batch, ctx_len, 1, ZeroCoord),
                   zeros(4, batch, ctx_len, 32, ZeroCoord)>>),
          concat(<<IndexSlots(ms, <<0, 1, 2>>),
                   IndexSlots(ms, <<3>>),
                   zeros(3, batch, ctx_len, 1, 0),
                   zeros(3, batch, ctx_len, 32, 0)>>)>>

add_back_useless_atoms(atom_positions, atom_mask) ==
    LET ps == Batched(atom_positions, 3)
        ms == Batched(atom_mask, 2)
        batch == Len(ms.v)
        ctx_len == Len(ms.v[1])
    IN  <<concat(<<IndexSlots(ps, <<0, 1, 2>>),
                   zeros(4, batch, ctx_len, 1, ZeroCoord),
                   IndexSlots(ps, <<3>>),
                   zeros(4, batch, ctx_len, 32, ZeroCoord)>>),
          concat(<<IndexSlots(ms, <<0, 1, 2>>),
                   zeros(3, batch, ctx_len, 1, 0),
                   IndexSlots(ms, <<3>>),
                   zeros(3, batch, ctx_len, 32, 0)>>)>>

\* the shapes of a pair of backbone tensors: each of them batched or not,
\* several samples only when both are batched
BackboneForms ==
    { f \in [pb : BOOLEAN, mb : BOOLEAN, batch : 1..MaxBatch] :
        f.batch > 1 => (f.pb /\ f.mb) }

\* the mask of one sample: the chosen validity of every slot for the odd
\* samples of the batch, its complement for the even ones
SampleMask(mk, ctx_len, bi) ==
    Tuple([ri \in 1..ctx_len |->
              Tuple([si \in 1..4 |->
                        IF bi % 2 = 1 THEN mk[ri][si] ELSE 1 - mk[ri][si]], 4)],
          ctx_len)

\* the positions of one sample: coordinates that differ from slot to slot,
\* from residue to residue and from sample to sample; the slots the mask
\* leaves out are zero when zeroed (as process_coordinates leaves them)
SamplePositions(ms, zeroed, ctx_len, bi) ==
    Tuple([ri \in 1..ctx_len |->
              Tuple([si \in 1..4 |->
                        IF zeroed /\ ms[ri][si] = 0
                          THEN ZeroCoord
                          ELSE LET c == 100 * bi + 10 * ri + si
                               IN  <<c, 0 - c, c + 1>>], 4)],
          ctx_len)

\* a tensor of the given number of unbatched dimensions holding the samples
BackboneTensor(samples, isBatched, unbatched) ==
    IF isBatched THEN [ndim |-> unbatched + 1, v |-> samples]
                 ELSE [ndim |-> unbatched, v |-> samples[1]]

\* a pair of 4-slot backbone tensors, before either function is applied
InitAtoms ==
    /\ args = [op |-> "atoms"]
    /\ pc = "idle"
    /\ sampler = NoSampler
    /\ prev_preds = <<>>
    /\ Fresh
    /\ dit = NoDiT
    /\ train = NoTrain
    /\ \E ctx_len \in 1..MaxCtx, zeroed \in BOOLEAN, f \in BackboneForms :
         \E mk \in [1..ctx_len -> [1..4 -> {0, 1}]] :
           LET masks == Tuple([bi \in 1..f.batch |->
                                  SampleMask(mk, ctx_len, bi)], f.batch)
               poss == Tuple([bi \in 1..f.batch |->
                                 SamplePositions(masks[bi], zeroed,
                                                 ctx_len, bi)], f.batch)
           IN  call = [op |-> "atoms", stage |-> "input",
                       p |-> BackboneTensor(poss, f.pb, 3),
                       m |-> BackboneTensor(masks, f.mb, 2),
                       added |-> None, removed |-> None]

\* add_back_useless_atoms(p, m)
AddBackCall ==
    /\ call.op = "atoms" /\ call.stage = "input"
    /\ call' = [call EXCEPT !.stage = "added",
                            !.added = add_back_useless_atoms(call.p, call.m)]
    /\ UNCHANGED <<diffuzz, args, pc, err, r_range, sampler, x, x_before,
                   x_renoised, pred_noise, preds, i, n_model, n_call,
                   n_blend, n_randn, model_t, last, prev_preds, dit, train>>

\* remove_useless_atoms applied to the pair add_back_useless_atoms returned
RemoveCall ==
    /\ call.op = "atoms" /\ call.stage = "added"
    /\ call' = [call EXCEPT !.stage = "removed",
                            !.removed = remove_useless_atoms(call.added[1],
                                                             call.added[2])]
    /\ UNCHANGED <<diffuzz, args, pc, err, r_range, sampler, x, x_before,
                   x_renoised, pred_noise, preds, i, n_model, n_call,
                   n_blend, n_randn, model_t, last, prev_preds, dit, train>>

NextAtoms ==
    \/ AddBackCall
    \/ RemoveCall

SpecAtoms == InitAtoms /\ [][NextAtoms]_vars

----------------------------------------------------------------------------
(* Vocabulary of the claims *)

IsSample == args.op = "sample"

\* the call has ended, by return or by exception
Ended == pc \in {"returned", "raised"}

\* a supported sampler name or a sampler class
ValidSampler(s) ==
    \/ s.kind = "str" /\ s.name \in {"ddpm", "ddim"}
    \/ s.kind = "class" /\ s.name \in {"DDPMSampler", "DDIMSampler"}

ValidSteps(st) == st \in {"linear", "ays"}

UnknownSamplerName(s) == s.kind = "str" /\ s.name \notin {"ddpm", "ddim"}

UnknownSteps(st) == st \notin {"linear", "ays"}

ConfigErrors == {"ValueError", "NotImplementedError"}

\* nothing was computed: no denoiser call, no sampler step, no random draw,
\* no trajectory element
NothingComputed ==
    n_model = 0 /\ n_call = 0 /\ n_randn = 0 /\ preds = <<>> /\ x = None

----------------------------------------------------------------------------
(* C1 *)

\* C1: a call of Diffuzz.sample with a valid sampler, a valid step schedule
\* and timesteps = n ends by returning, after exactly n denoiser calls and n
\* sampler invocations, a list of exactly n elements whose last element is
\* the final working sample.
C1_ExactlyNIterations ==
    (IsSample /\ Ended /\ ValidSampler(args.sampler) /\ ValidSteps(args.steps))
        => /\ pc = "returned"
           /\ n_model = args.timesteps
           /\ n_call = args.timesteps
           /\ Len(preds) = args.timesteps
           /\ (args.timesteps > 0 => preds[args.timesteps] = x)

----------------------------------------------------------------------------
(* C2 *)

\* iteration i has t = entry i and t_prev = entry i+1, and runs blend,
\* denoiser, sampler, append in this order
C2_IterationOrder ==
    /\ pc = "model" =>
          /\ n_model = i /\ n_call = i /\ Len(preds) = i
          /\ n_blend = IF Inpainting(args) THEN i + 1 ELSE 0
    /\ pc = "undiffuse" =>
          /\ n_model = i + 1 /\ n_call = i /\ Len(preds) = i
          /\ model_t = r_range[i + 1]
    /\ pc = "append" =>
          /\ n_model = i + 1 /\ n_call = i + 1 /\ Len(preds) = i
          /\ model_t = r_range[i + 1]
          /\ last.t = TVec(r_range[i + 1])
          /\ last.t_prev = TVec(r_range[i + 2])
    /\ pc \in {"loop", "returned"} =>
          /\ n_model = i /\ n_call = i /\ Len(preds) = i
          /\ n_blend = IF Inpainting(args) THEN i ELSE 0
          /\ (i >= 1 => last.t_prev = TVec(r_range[i + 1]))

----------------------------------------------------------------------------
(* C3 *)

\* v is, at element p, a re-diffusion of x_init at the progress value of the
\* iteration that produced trajectory element k or at the one it steps to
IsRediffusedAt(v, p, k) ==
    \E z \in NoiseDraws, e \in {k, k + 1} :
        v = Diffuse(diffuzz, args.x_init, TVec(r_range[e]), z)[p]

\* C3 as stated: in inpainting mode the trajectory element just produced
\* equals, wherever mask = 1, a freshly re-diffused x_init at the current
\* progress value.
C3_PinnedAsStated ==
    (IsSample /\ Inpainting(args) /\ pc = "loop" /\ i >= 1)
        => \A p \in Pos :
              args.mask[p] = 1 => IsRediffusedAt(preds[i][p], p, i)

\* C3 amended: in inpainting mode every trajectory element is, at every
\* element (mask = 1 and mask = 0 alike), the output of the sampler step;
\* the re-diffused x_init enters only the input of that step, where mask = 0,
\* the input keeping the previous working sample where mask = 1.
C3_TrajectoryIsSamplerOutput ==
    (IsSample /\ Inpainting(args) /\ pc \in {"loop", "returned"} /\ i >= 1)
        => /\ preds[i] = last.out
           /\ last.via = "call"
           /\ \A p \in Pos :
                 last.x[p] = IF args.mask[p] = 0 THEN x_renoised[p]
                             ELSE x_before[p]

\* an inpainting iteration has appended an element that, where mask = 1, is
\* no re-diffusion of x_init, with the mask holding both values
C3_Witness ==
    /\ IsSample /\ Inpainting(args) /\ pc = "loop" /\ i >= 1
    /\ args.t_start > args.t_end
    /\ \E p, q \in Pos :
          /\ args.mask[p] = 1 /\ args.mask[q] = 0
          /\ ~IsRediffusedAt(preds[i][p], p, i)
          /\ x_renoised[q] # x_before[q]

----------------------------------------------------------------------------
(* C4 *)

\* C4: in inpainting mode the sample passed to the denoiser in iteration i is
\* the re-diffused x_init at r_range[i] where mask = 0 and the previous
\* working sample where mask = 1; without mask or without x_init nothing is
\* blended in any iteration.
C4_DenoiserInput ==
    (IsSample /\ pc = "model")
        => IF Inpainting(args)
             THEN /\ \E z \in NoiseDraws :
                        x_renoised = Diffuse(diffuzz, args.x_init,
                                             TVec(r_range[i + 1]), z)
                  /\ \A p \in Pos :
                        /\ args.mask[p] = 0 => x[p] = x_renoised[p]
                        /\ args.mask[p] = 1 => x[p] = x_before[p]
                  /\ (i >= 1 => x_before = preds[i])
             ELSE x = x_before /\ n_blend = 0 /\ x_renoised = None

\* the denoiser is about to run on a blended sample in a later iteration,
\* the mask holding both values and the two sources differing
C4_Witness ==
    /\ IsSample /\ pc = "model" /\ Inpainting(args) /\ i >= 1
    /\ args.t_start > args.t_end
    /\ \E p, q \in Pos : args.mask[p] = 1 /\ args.mask[q] = 0
    /\ \A p \in Pos : x_renoised[p] # x_before[p]

----------------------------------------------------------------------------
(* C6 *)

\* C6: a call with an unknown sampler name or an unknown step-schedule name
\* ends with a configuration error and has computed nothing: no denoiser
\* call, no sampler step, no initial noise, no trajectory.
C6_FailFast ==
    (IsSample /\ pc # "start"
       /\ (UnknownSamplerName(args.sampler) \/ UnknownSteps(args.steps)))
        => /\ pc = "raised"
           /\ err \in ConfigErrors
           /\ NothingComputed

----------------------------------------------------------------------------
(* C7 *)

\* C7: a call with steps = "ays" and a valid sampler builds a schedule of
\* timesteps+1 progress values from t_start to t_end, runs the loop and
\* returns a trajectory of timesteps samples.
C7_AysRuns ==
    (IsSample /\ args.steps = "ays" /\ ValidSampler(args.sampler) /\ pc # "start")
        => /\ pc # "raised"
           /\ Len(r_range) = args.timesteps + 1
           /\ r_range[1] = args.t_start
           /\ (pc = "returned" => Len(preds) = args.timesteps)

----------------------------------------------------------------------------
(* C9 *)

IsDDPMStep == last.cls = "DDPMSampler"

LastMu == DDPMMu(diffuzz, last.x, last.t, last.t_prev, last.noise)

LastStd == DDPMStd(diffuzz, last.t, last.t_prev, last.z)

\* a step of DDPMSampler has just returned (last keeps its record until the
\* next step runs)
DDPMStepReturned == IsDDPMStep /\ pc \in {"append", "idle"}

\* the result of DDPMSampler.step is mu plus the drawn noise term exactly
\* for the entries with t_prev # 0, and for the others it is mu whatever the
\* draw is
C9_NoiseIffTPrevNonzero ==
    DDPMStepReturned =>
        \A p \in Pos :
            /\ last.t_prev[p] # 0 => last.out[p] = LastMu[p] + LastStd[p]
            /\ last.t_prev[p] = 0 =>
                  /\ last.out[p] = LastMu[p]
                  /\ \A z2 \in NoiseDraws :
                        DDPMStep(diffuzz, last.x, last.t, last.t_prev,
                                 last.noise, z2)[p] = last.out[p]

\* the sampler step of iteration i of a DDPM sample call has just run
DDPMIterationDone ==
    IsSample /\ pc = "append" /\ IsDDPMStep /\ args.t_end = 0

\* C9 as stated: the noise term is added exactly for the entries with
\* t_prev # 0, and in Diffuzz.sample with t_end = 0 the step with t_prev = 0
\* is the last iteration and no earlier one.
C9_TerminalStepAsStated ==
    /\ C9_NoiseIffTPrevNonzero
    /\ DDPMIterationDone =>
          (last.t_prev = TVec(0) <=> i = args.timesteps - 1)

\* C9 amended: the noise term is added exactly for the entries with
\* t_prev # 0, and in Diffuzz.sample with t_end = 0 and t_start # 0 the step
\* with t_prev = 0 is the last iteration and no earlier one.
C9_TerminalStep ==
    /\ C9_NoiseIffTPrevNonzero
    /\ (DDPMIterationDone /\ args.t_start # 0) =>
          (last.t_prev = TVec(0) <=> i = args.timesteps - 1)

\* a DDPM step has run on a batch in which one entry has t_prev = 0 and a
\* noise term that is not zero, and another entry has t_prev # 0
C9_Witness ==
    /\ IsDDPMStep
    /\ \E p, q \in Pos :
          /\ last.t_prev[p] = 0 /\ LastStd[p] # 0 /\ last.out[p] = LastMu[p]
          /\ last.t_prev[q] # 0 /\ LastStd[q] # 0

----------------------------------------------------------------------------
(* C10 *)

\* the class Diffuzz.sample is asked for, by name or as a class
RequestedClass(s) ==
    IF s.kind = "str"
      THEN IF s.name = "ddpm" THEN "DDPMSampler" ELSE "DDIMSampler"
      ELSE s.name

\* C10: a sampler's only mutable state is its step counter: -1 at
\* construction, one more after every invocation through __call__ (k - 1
\* after k invocations), unchanged by a direct call of step, and equal to
\* timesteps - 1 on the one fresh sampler of a Diffuzz.sample call when the
\* call returns.
C10_StepCounter ==
    /\ sampler.current_step = n_call - 1
    /\ sampler # NoSampler =>
          /\ DOMAIN sampler = {"cls", "current_step"}
          /\ sampler.cls \in SamplerClasses
    /\ (IsSample /\ pc = "returned") =>
          /\ sampler.cls = RequestedClass(args.sampler)
          /\ sampler.current_step = args.timesteps - 1
    /\ (IsSample /\ pc = "loop") => sampler.current_step = i - 1

\* step has been called directly on a sampler that was invoked twice before
C10_Witness ==
    /\ ~IsSample
    /\ last.via = "step"
    /\ n_call >= 2
    /\ sampler.current_step = n_call - 1

----------------------------------------------------------------------------
(* C8 *)

\* the second of two calls with the same arguments has returned
BothReturned == IsSample /\ pc = "returned" /\ prev_preds # <<>>

\* C8 as stated: two calls that are given the same x_init, the same denoiser
\* and the same other arguments return identical trajectories.
C8_SameArgsSameTrajectory ==
    (BothReturned /\ args.x_init # None) => preds = prev_preds[1]

\* the configuration in which a call draws no random number
NoRandomDraw(a) ==
    /\ RequestedClass(a.sampler) = "DDIMSampler"
    /\ a.x_init # None
    /\ a.mask = None

\* C8 amended: two calls with the same arguments return identical
\* trajectories when the sampler is DDIM, x_init is supplied and no mask is
\* given; such a call draws no random number.
C8_Deterministic ==
    /\ (IsSample /\ NoRandomDraw(args)) => n_randn = 0
    /\ (BothReturned /\ NoRandomDraw(args)) => preds = prev_preds[1]

\* two DDIM calls from the same x_init have returned the same trajectory of
\* at least two elements
C8_Witness ==
    /\ BothReturned /\ NoRandomDraw(args)
    /\ args.timesteps >= 2
    /\ Len(preds) = args.timesteps
    /\ preds = prev_preds[1]
    /\ preds[1] # preds[2]

----------------------------------------------------------------------------
(* C5 *)

\* two recorded calls on the same sample length whose inputs and timesteps
\* agree on the valid positions
AgreeOnValid ==
    /\ dit.prev # None
    /\ dit.prev.num_res = dit.cur.num_res
    /\ dit.prev.t = dit.cur.t
    /\ \A p \in 1..dit.cur.num_res : dit.prev.x[p] = dit.cur.x[p]

\* C5: positions beyond the valid residue count are excluded from
\* self-attention: when two calls of DiT.forward with the same mask get inputs
\* that differ only at positions beyond the valid residue count, the outputs
\* at the valid positions are equal.
C5_InvalidPositionsExcluded ==
    AgreeOnValid =>
        \A p \in 1..dit.cur.num_res : dit.prev.out[p] = dit.cur.out[p]

----------------------------------------------------------------------------
(* Claims about the noise schedule of a Diffuzz (SpecDiffuzz) *)

AlphaCumprodReturned == call.op = "_alpha_cumprod"

Cached == diffuzz.cached_steps # None

\* the grid index nearest to t * (K - 1), halves rounded up
NearestIndex(t, K) == (2 * t * (K - 1) + Scale) \div (2 * Scale)

\* C11 as stated: with a cache the value returned for t is the cache entry
\* at the index round(t * (K - 1)), the grid entry nearest to t.  The code
\* truncates the index with .long(), so this is violated.
C11_NearestEntry ==
    (AlphaCumprodReturned /\ Cached) =>
        \A k \in 1..2 :
            call.out[k] =
              diffuzz.cached_steps[
                  NearestIndex(call.t[k], Len(diffuzz.cached_steps)) + 1]

\* the divisors of diffuse, DDPMSampler.step, DDIMSampler.step and p2_weight
\* at progress t: alpha_cumprod, 1 - alpha_cumprod and their square roots
NoZeroDivisor(dz, t) ==
    LET a == AlphaCumprod(dz, t)
    IN  /\ a # 0 /\ Scale - a # 0
        /\ SqrtFP(a) # 0 /\ SqrtFP(Scale - a) # 0

InClampRange(dz, a) == dz.clamp_range[1] <= a /\ a <= dz.clamp_range[2]

\* C12, amended: for every t in [0,1], every scaler and both constructions
\* the schedule value lies in the clamp range and none of the divisors is 0;
\* at t = 0 it is the clamp ceiling, and at t = 1 it is the clamp floor
\* unless the cache holds a single entry
C12_ClampRange ==
    /\ AlphaCumprodReturned =>
          \A k \in 1..2 :
              /\ InClampRange(diffuzz, call.out[k])
              /\ NoZeroDivisor(diffuzz, call.t[k])
              /\ (call.t[k] = 0) => (call.out[k] = diffuzz.clamp_range[2])
              /\ (call.t[k] = Scale
                    /\ (~Cached \/ Len(diffuzz.cached_steps) >= 2))
                    => (call.out[k] = diffuzz.clamp_range[1])
    /\ call.op \in {"diffuse", "ddim_step", "undiffuse"} =>
          \A p \in Pos : NoZeroDivisor(diffuzz, call.t[p])
    /\ call.op \in {"ddim_step", "undiffuse"} =>
          \A p \in Pos : NoZeroDivisor(diffuzz, call.t_prev[p])
    /\ call.op = "p2_weight" => NoZeroDivisor(diffuzz, call.t)

\* a cached, rescaled schedule is read at t = 1 and returns the clamp floor
C12_Witness ==
    /\ AlphaCumprodReturned /\ Cached
    /\ diffuzz.scaler # Scale
    /\ call.t[2] = Scale
    /\ call.out[2] = diffuzz.clamp_range[1]

\* C12 as stated: at t = 1 the value is the clamp floor in every
\* construction
C12_FloorAtOne ==
    AlphaCumprodReturned =>
        \A k \in 1..2 :
            (call.t[k] = Scale) => (call.out[k] = diffuzz.clamp_range[1])

StrictlyInside(dz, a) == dz.clamp_range[1] < a /\ a < dz.clamp_range[2]

\* C13, amended: the schedule never increases with t, and between two
\* uncached values that are both strictly inside the clamp range it strictly
\* decreases
C13_NonIncreasing ==
    (AlphaCumprodReturned /\ call.t[1] < call.t[2]) =>
        /\ call.out[1] >= call.out[2]
        /\ (/\ ~Cached
            /\ StrictlyInside(diffuzz, call.out[1])
            /\ StrictlyInside(diffuzz, call.out[2]))
              => call.out[1] > call.out[2]

\* two progress values in (0,1) with schedule values strictly inside the
\* clamp range, the earlier one larger
C13_Witness ==
    /\ AlphaCumprodReturned /\ ~Cached
    /\ 0 < call.t[1] /\ call.t[1] < call.t[2] /\ call.t[2] < Scale
    /\ StrictlyInside(diffuzz, call.out[1])
    /\ StrictlyInside(diffuzz, call.out[2])
    /\ call.out[1] > call.out[2]

\* C13 as stated: for t1 < t2 in (0,1) the schedule strictly decreases and
\* both values are strictly inside the clamp range
C13_StrictlyDecreasing ==
    (/\ AlphaCumprodReturned
     /\ 0 < call.t[1] /\ call.t[1] < call.t[2] /\ call.t[2] < Scale) =>
        /\ call.out[1] > call.out[2]
        /\ StrictlyInside(diffuzz, call.out[1])
        /\ StrictlyInside(diffuzz, call.out[2])

----------------------------------------------------------------------------
(* Claims about the construction of a DiT (SpecAttn) *)

\* the DiT holds the parameters that DiT.__init__ gave it
FreshDiT == dit.config # None /\ ~dit.loaded

ZeroLinear(w, b) ==
    /\ \A r \in 1..Len(w) : \A c \in 1..Len(w[r]) : w[r][c] = 0
    /\ \A c \in 1..Len(b) : b[c] = 0

\* the zero-initialised layers of lines 283-293
ModulationAndMeanZero ==
    /\ \A l \in 1..Len(dit.params.blocks) :
          ZeroLinear(dit.params.blocks[l].ada_w, dit.params.blocks[l].ada_b)
    /\ ZeroLinear(dit.params.final_layer.ada_w, dit.params.final_layer.ada_b)
    /\ ZeroLinear(dit.params.final_layer.mean_w, dit.params.final_layer.mean_b)

\* C14 as stated: right after construction the last linear layer of
\* adaLN_modulation in every block, that of the final layer and every output
\* head of the final layer (mean_linear, and sigma_linear when learn_sigma)
\* have zero weight and zero bias.  sigma_linear keeps its Xavier weights,
\* so this is violated.
C14_ZeroInitialised ==
    FreshDiT =>
        /\ ModulationAndMeanZero
        /\ dit.config.learn_sigma =>
              ZeroLinear(dit.params.final_layer.sigma_w,
                         dit.params.final_layer.sigma_b)

\* a forward call of the freshly built DiT has returned
FreshForward == FreshDiT /\ dit.cur # None

\* the residual stream that leaves the last block in the recorded call
StreamAfterBlocks ==
    BlocksForward(dit.config, dit.params.blocks, Len(dit.params.blocks),
                  Embedded(dit.params, dit.cur.x),
                  TimestepEmbedderForward(dit.config, dit.params.t_embedder,
                                          dit.cur.t),
                  dit.cur.attn_mask)

\* C15 as stated: in a freshly built DiT every block returns its input
\* stream, the stream entering the final layer is x_embedder(x) + pos_embed,
\* and forward returns its input x, with learn_sigma and without.  With
\* learn_sigma the output is x divided by the sigma term, so this is
\* violated.
C15_IdentityPassThrough ==
    FreshForward =>
        /\ StreamAfterBlocks = Embedded(dit.params, dit.cur.x)
        /\ dit.cur.out = dit.cur.x

ConstructorReturned == call.op = "DiT"

\* n_heads divides neither input_dim nor d_model, or only one of them
Indivisible(cfg) ==
    cfg.input_dim % cfg.n_heads # 0 \/ cfg.d_model % cfg.n_heads # 0

\* C16 as stated: the constructor, given a configuration whose input_dim or
\* d_model is not divisible by n_heads, raises an error and no model is
\* built.  Nothing in the constructor compares input_dim with n_heads, so
\* this is violated.
C16_IndivisibleRejected ==
    (ConstructorReturned /\ Indivisible(call.config)) =>
        (err # "none" /\ dit = NoDiT)

----------------------------------------------------------------------------
(* Claims about the attention mask (SpecAttn) *)

\* a forward call has been made with the mask built for its sample
MaskBuilt == dit.cur # None

\* C17: for a sample with n valid residues and sequence length L the mask is
\* an L x L boolean matrix whose entry (i, j), counted from 0, is True
\* exactly when j < n, in every row i (row below), the rows i >= n included
C17_ColumnMask ==
    MaskBuilt =>
        LET m == dit.cur.attn_mask
            n == dit.cur.num_res
            L == dit.config.seq_len
        IN  /\ DOMAIN m = 1..L
            /\ \A row \in 0..(L - 1) :
                  /\ DOMAIN m[row + 1] = 1..L
                  /\ \A j \in 0..(L - 1) :
                        /\ m[row + 1][j + 1] \in BOOLEAN
                        /\ m[row + 1][j + 1] = (j < n)

\* a sample shorter than the sequence: its last row, a row beyond n, is True
\* in column 0 and False in the last column
C17_Witness ==
    /\ MaskBuilt
    /\ dit.cur.num_res < dit.config.seq_len
    /\ dit.cur.attn_mask[dit.config.seq_len][1]
    /\ ~dit.cur.attn_mask[dit.config.seq_len][dit.config.seq_len]

----------------------------------------------------------------------------
(* Claims about the methods of a Diffuzz (SpecDiffuzz) *)

\* C18: no step of a _alpha_cumprod, diffuse, undiffuse, sample or p2_weight
\* call, nor of a sampler step, changes a field of the Diffuzz (s,
\* _init_alpha_cumprod, scaler, clamp_range, cached_steps), and none changes
\* the parameters of the denoiser
C18_Immutable ==
    [][diffuzz' = diffuzz /\ dit'.params = dit.params]_vars

\* a cached Diffuzz after two calls, a diffuse and a sampler step
C18_Witness ==
    /\ call.op = "ddim_step"
    /\ Cached
    /\ diffuzz \in Diffuzzes
    /\ dit.params = initialize_weights(SamplingConfig, 1)

DiffuseReturned == call.op = "diffuse"

\* alpha_cumprod.sqrt() * x + (1 - alpha_cumprod).sqrt() * noise at one
\* position
DiffusedAt(dz, xv, tv, nv) ==
    MulFP(SqrtFP(AlphaCumprod(dz, tv)), xv)
      + MulFP(SqrtFP(Scale - AlphaCumprod(dz, tv)), nv)

\* C19: diffuse draws noise exactly when noise is None; a supplied noise is
\* the second returned value and the first is computed from it; x, t and
\* the supplied noise are the same after the call as before
C19_Diffuse ==
    DiffuseReturned =>
        /\ call.drew = (call.noise = None)
        /\ n_randn = (IF call.noise = None THEN 1 ELSE 0)
        /\ call.noise # None =>
              /\ call.ret[2] = call.noise
              /\ \A p \in Pos :
                    call.ret[1][p] =
                      DiffusedAt(diffuzz, call.x[p], call.t[p], call.noise[p])
        /\ call.x_after = call.x
        /\ call.t_after = call.t
        /\ call.noise_after = call.noise

\* a diffuse call with a supplied noise, at a progress value inside (0,1)
C19_Witness ==
    /\ DiffuseReturned
    /\ call.noise # None
    /\ ~call.drew
    /\ call.ret[2] = call.noise
    /\ call.t[1] \notin {0, Scale}
    /\ call.ret[1] # call.x

DDIMStepReturned == call.op = "ddim_step"

Abs(v) == IF v < 0 THEN -v ELSE v

\* C20: with x_t = diffuse(x, t, noise)[0], the clean-sample estimate of
\* DDIMSampler.step equals x, step(x_t, t, t_prev, noise) equals
\* diffuse(x, t_prev, noise)[0], and it equals x_t when t_prev = t.  Equality
\* is up to one rounding step of the arithmetic, which the division by
\* sqrt(alpha_cumprod(t)) magnifies by 1 / sqrt(alpha_cumprod(t)).
C20_RoundTrip ==
    DDIMStepReturned =>
        \A p \in Pos :
            LET ra == SqrtFP(AlphaCumprod(diffuzz, call.t[p]))
                rp == SqrtFP(AlphaCumprod(diffuzz, call.t_prev[p]))
            IN  /\ Abs(call.est[p] - call.x0[p]) * ra <= Scale
                /\ Abs(call.out[p]
                         - DiffusedAt(diffuzz, call.x0[p], call.t_prev[p],
                                      call.noise[p])) * ra <= rp + ra
                /\ (call.t_prev[p] = call.t[p]) =>
                      Abs(call.out[p] - call.x_t[p]) <= 1

\* a round trip from almost pure noise (t = 1) back to t_prev = 0
C20_Witness ==
    /\ DDIMStepReturned
    /\ ~Cached
    /\ call.t[1] = Scale
    /\ call.t_prev[1] = 0
    /\ call.x_t # call.x0
    /\ call.out # call.x_t

----------------------------------------------------------------------------
(* Claims about the first sample of a trajectory (Spec) *)

\* the first statement of the loop has not run yet: x is the initial sample
AtInitialSample == IsSample /\ pc = "loop" /\ i = 0

\* x_init is given and no mask is
SeedOnly(a) == a.x_init # None /\ a.mask = None

\* C21, amended: sample starts from a copy of x_init, drawing nothing, when
\* x_init is given and no mask is; in every other case (no x_init, or a mask
\* with or without x_init) it draws the initial sample through init_x; no
\* step of the call changes x_init
C21_InitialSample ==
    [][/\ IsSample => args'.x_init = args.x_init
       /\ (IsSample /\ pc = "start" /\ pc' = "loop") =>
             IF SeedOnly(args)
               THEN x' = args.x_init /\ n_randn' = n_randn
               ELSE x' \in NoiseDraws /\ n_randn' = n_randn + 1]_vars

\* a call with x_init and a mask stands at its initial sample, which was
\* drawn and is not x_init
C21_Witness ==
    /\ AtInitialSample
    /\ args.x_init # None /\ args.mask # None
    /\ x \in NoiseDraws
    /\ x # args.x_init
    /\ n_randn = 1

\* C21 as stated: whenever x_init is given, with or without a mask, the
\* trajectory starts from a copy of x_init and nothing is drawn for it
C21_SeedAlwaysUsed ==
    (AtInitialSample /\ args.x_init # None) =>
        (x = args.x_init /\ n_randn = 0)

----------------------------------------------------------------------------
(* Claims about the sampler argument of sample (Spec) *)

\* a supported name, a SimpleSampler subclass or a SimpleSampler object
AcceptableSampler(s) ==
    \/ s.kind = "str" /\ s.name \in {"ddpm", "ddim"}
    \/ s.kind = "class" /\ s.name \in SamplerClasses
    \/ s.kind = "object" /\ s.name \in SamplerClasses

\* the call is past lines 81-99 with a step schedule that was built
PastSamplerCheck == IsSample /\ pc # "start" /\ args.steps = "linear"

\* C22 as stated: a supported name, a SimpleSampler subclass and a
\* SimpleSampler object are accepted, and every other sampler argument is
\* rejected with ValueError.  A sampler object reaches issubclass, which
\* raises TypeError, so this is violated.
C22_SamplerArgument ==
    PastSamplerCheck =>
        IF AcceptableSampler(args.sampler)
          THEN pc # "raised" /\ err = "none"
          ELSE pc = "raised" /\ err = "ValueError"


----------------------------------------------------------------------------
(* Resuming a training run *)

\* a run of train that loaded a checkpoint and is in its loop
Resumed == train.phase = "loop" /\ train.checkpoint # None

\* C23: a run of train that resumes from a checkpoint written at iteration
\* it starts its loop at it + 1, whatever grad_accum_steps and
\* checkpoint_freq are, so that no iteration is repeated and none skipped
C23_ResumesAtNextIteration ==
    Resumed => train.start_iter = train.checkpoint.iter + 1

\* a run of train that is past its loop
LoopEnded == train.phase \in {"done", "raised"}

\* the iteration that the final checkpoint of the run has to record
LastIteration ==
    IF train.it # None THEN train.it[1] ELSE train.checkpoint.iter

\* the largest iteration among the files of a directory listing
HighestIter(files) ==
    CHOOSE k \in { f.iter : f \in files } :
        \A f \in files : f.iter <= k

\* C24: every run of train that reaches the end of its loop, the run with an
\* empty loop included, writes "model.pt" recording the last iteration, and
\* a run that finds several checkpoints and no "model.pt" resumes from the
\* one of highest iteration
C24_FinalCheckpointAndHighest ==
    /\ LoopEnded =>
          /\ train.phase = "done"
          /\ \E f \in train.files :
                f.name = FinalName /\ f.iter = LastIteration
    /\ (Resumed /\ \A f \in train.listing : f.name # FinalName) =>
          train.checkpoint.iter = HighestIter(train.listing)


----------------------------------------------------------------------------
(* Backbone slots and the 37 atom slots *)

AddedBack == call.op = "atoms" /\ call.stage \in {"added", "removed"}

RoundTripDone == call.op = "atoms" /\ call.stage = "removed"

\* one row of 37 slots against the row of 4 backbone slots it was built
\* from: the k-th input at the slot of the k-th backbone atom, zero elsewhere
LaidOut(row, inputRow, z) ==
    /\ Len(row) = Len(PROTEIN_ATOMS)
    /\ \A ki \in 1..4 : row[backbone_indices[ki] + 1] = inputRow[ki]
    /\ \A si \in 1..Len(row) :
          (\A ki \in 1..4 : backbone_indices[ki] + 1 # si) => row[si] = z

\* a tensor of 37-slot rows laid out from a batched tensor of 4-slot rows
TensorLaidOut(t, input, z) ==
    /\ t.ndim = input.ndim
    /\ Len(t.v) = Len(input.v)
    /\ \A bi \in 1..Len(t.v) :
          /\ Len(t.v[bi]) = Len(input.v[bi])
          /\ \A ri \in 1..Len(t.v[bi]) :
                LaidOut(t.v[bi][ri], input.v[bi][ri], z)

\* C25: add_back_useless_atoms yields 37 slots with the four inputs at the
\* slots of N, CA, C and O (0, 1, 2 and 4, the slots process_coordinates
\* fills) and zero in every other slot of positions and mask, and
\* remove_useless_atoms of its result returns the values of (p, m), as
\* batched tensors: an unbatched input comes back with a leading batch
\* dimension of size 1
C25_InverseOnBackbone ==
    /\ AddedBack =>
          /\ TensorLaidOut(call.added[1], Batched(call.p, 3), ZeroCoord)
          /\ TensorLaidOut(call.added[2], Batched(call.m, 2), 0)
    /\ RoundTripDone =>
          /\ call.removed[1] = Batched(call.p, 3)
          /\ call.removed[2] = Batched(call.m, 2)

\* the round trip of an unbatched pair whose O atom is present
C25_Witness ==
    /\ RoundTripDone
    /\ call.p.ndim = 3 /\ call.m.ndim = 2
    /\ call.m.v[1][4] = 1
    /\ call.p.v[1][4] # ZeroCoord
    /\ call.added[1].v[1][1][5] = call.p.v[1][4]
    /\ call.removed[1].ndim = 4

\* C25 as stated: remove_useless_atoms(add_back_useless_atoms(p, m)) is
\* (p, m) itself for every 4-slot pair, and the 37 slots are laid out as
\* above
C25_ReturnsSamePair ==
    /\ AddedBack =>
          /\ TensorLaidOut(call.added[1], Batched(call.p, 3), ZeroCoord)
          /\ TensorLaidOut(call.added[2], Batched(call.m, 2), 0)
    /\ RoundTripDone =>
          /\ call.removed[1] = call.p
          /\ call.removed[2] = call.m

====
